---- MODULE Spec2Model ----
(***************************************************************************)
(* Coordinator (OperatorNode) of the l0proof oracle network: the pending   *)
(* table, the LevelDB store of records and signatures, the inbound message *)
(* handlers and the retry / expiry loop.                                   *)
(*                                                                         *)
(* Time is counted in seconds.  Cryptographic values are represented by    *)
(* what determines them: a digest by its preimage, a signature by the key  *)
(* that made it and the digest it was made over.                           *)
(***************************************************************************)
EXTENDS Integers, Sequences, FiniteSets, TLC

VARIABLES
    running,          \* the coordinator process is alive
    now,              \* wall clock, seconds since the first start
    ticks,            \* number of clock advances so far (bounds the model)
    trustedAddrs,     \* OperatorNode.trustedAddrs, list of address strings
    pending,          \* OperatorNode.pending : hash string -> PendingRequest
    lastMessageTime,  \* OperatorNode.lastMessageTime
    db,               \* LevelDB content : key -> value
    lastEvent,        \* what the last step of the process did (its log line)
    loopPc,           \* retryPendingRequests: "select" or "publishing"
    snapshot,         \* retryPendingRequests: pendingHashes still to publish
    publishEnds,      \* time at which the running topic.Publish returns
    tickerC,          \* a tick is waiting in ticker.C (5 s)
    tickerExpiredC,   \* a tick is waiting in tickerExpired.C (1 min)
    inflight,         \* rebroadcasts published and not yet read by listen
    retryLog,         \* the last retry tick: pending then, and the Publish calls since
    sgRunning,        \* the signer process is alive
    sgOutbox,         \* the signer's calls of topic.Publish, in order
    sgLastEvent,      \* what the last step of the signer did
    sgInbox,          \* rebroadcasts delivered to the signer's subscription, unread
    wkPc,             \* PublishSignRequest: "idle" or "publishing"
    wkReq,            \* PublishSignRequest: the request of the running call
    wkAttempt,        \* PublishSignRequest: failed Publish attempts of the call
    wkTopic,          \* the sign_requests PublishSignRequest put on the topic
    answer,           \* the last query of the store and what it returned
    mu,               \* LevelDBDatabase.mu: the callers holding the write lock
    calls,            \* the StoreSignature calls of each caller
    topicSubs,        \* the signers subscribed to the topic, as Publish sees them
    rootDone,         \* OperatorNode.ctx is cancelled
    sub,              \* OperatorNode.sub: a subscription, or NilSub
    subCancelled,     \* the subscriptions whose Cancel was called
    subNext,          \* the subscription the next successful Subscribe returns
    lsPc,             \* listen: where the goroutine is
    lsSub,            \* listen: the subscription its Next call reads from
    hmPc,             \* healthMonitor: where the goroutine is
    consecutiveTimeouts, \* healthMonitor: its local counter
    rs,                \* the resubscribe call of each task
    observed,         \* the process a behaviour follows: coordinator or signer
    nodeDone,         \* Node.ctx (the signer's root context) is cancelled
    bg,               \* the other goroutines: where each one is
    sgSub,            \* Node.sub is a subscription (FALSE: nil)
    sgResubI,          \* Node.resubscribe: its loop variable i
    connected,        \* the peers the host is connected to
    knownPeers,       \* OperatorNode.knownPeers: peer -> time last seen
    peerstore,        \* the other peers of the host's peer store (each with an address)
    peerNow,          \* the clock of the peer supervisor, in seconds
    peerDue,          \* the supervisor tickers that have fired and wait to be served
    tried,             \* the peers the last peerDiscovery tick called host.Connect for
    lkPc,             \* each goroutine's place: the operation it runs and the lock call it is at
    lkHeld,           \* the locks each goroutine holds, in the order taken
    lkW,               \* per lock, the goroutine that has announced or holds the write lock
    aggTick,           \* the last collection tick of Worker.Run: its number, the sources' outcomes and what GetAveragePrice returned
    mPending,         \* per coordinator on the topic, its pending table (times counted back from the present)
    mInbox,           \* per coordinator, the sign_requests for the hash its subscription holds
    mDue,             \* per coordinator, the tickers of its retry loop that have fired
    mPhase,           \* the clock, in retry intervals within one sweep interval
    mAuthored         \* the worker has published the request

coreVars == <<running, now, ticks, trustedAddrs, pending, lastMessageTime, db, lastEvent>>
loopVars == <<loopPc, snapshot, publishEnds, tickerC, tickerExpiredC, inflight, retryLog>>
signerVars == <<sgRunning, sgOutbox, sgLastEvent, sgInbox>>
workerVars == <<wkPc, wkReq, wkAttempt, wkTopic>>
queryVars == <<answer>>
lockVars == <<mu, calls>>
lateVars == <<topicSubs>>
subVars == <<rootDone, sub, subCancelled, subNext, lsPc, lsSub, hmPc, consecutiveTimeouts, rs>>
cancelVars == <<observed, nodeDone, bg, sgSub, sgResubI>>
peerVars == <<connected, knownPeers, peerstore, peerNow, peerDue, tried>>
orderVars == <<lkPc, lkHeld, lkW>>
aggVars == <<aggTick>>
mirrorVars == <<mPending, mInbox, mDue, mPhase, mAuthored>>
moreVars == <<lockVars, lateVars, subVars, cancelVars, peerVars, orderVars, aggVars, mirrorVars>>
sideVars == <<signerVars, workerVars, queryVars, moreVars>>
vars == <<coreVars, loopVars, sideVars>>

----------------------------------------------------------------------------
(* Bounds of the model *)

MaxTicks == 1
MaxSigVariants == 2
MaxClockSteps == 76
MaxInFlight == 1
MaxRequestSteps == 2
MaxSignerPublishes == 3
MaxWorkerPublishes == 2
MaxPage == 3
MaxLimit == 2
MaxBuilds == 2
MaxStoreCalls == 2
MaxRetryTicks == 2
MaxSubscriptions == 3
MaxLateAnswers == 2

----------------------------------------------------------------------------
(* Program constants *)

retryInterval == 5
sweepInterval == 60
pendingExpiryDefault == 300
publishTimeout == 10
reconnectTimeout == 5
maxReconnectAttempts == 10
maxSleepTime == 30
maxConsecutiveTimeouts == 3
nodeMaxReconnectAttempts == 30
peerDiscoveryInterval == 60
peerGarbageCollectorTime == 300
maxRetries == 3

MsgTypeSignRequest == "sign_request"
MsgTypeSignResponse == "sign_response"

signaturePrefix == "sig:"
dataPrefix == "data:"
dataStructPrefix == "ds:"
indexPrefix == "index:"

NoTime == -1

----------------------------------------------------------------------------
(* Finite maps *)

MapPut(f, k, v) == (k :> v) @@ f
MapDel(f, ks) == [x \in (DOMAIN f) \ ks |-> f[x]]
EmptyMap == [x \in {} |-> 0]

----------------------------------------------------------------------------
(* Keys, addresses, hashes, signatures *)

\* secp256k1 key pairs taking part; Stray stands for the key a signature
\* recovers to when it is checked against a digest it was not made over.
Keys == {"A", "B", "C", "X"}
Stray == "stray"

\* An address string: hex digits of the 20-byte address id in some letter
\* case, with or without the 0x prefix.
AddrString(k, form, pfx) == [id |-> k, form |-> form, pfx |-> pfx]

\* common.Address.Hex(): EIP-55 mixed case with the 0x prefix.
Hex(k) == AddrString(k, "eip55", TRUE)

\* strings.EqualFold: equality up to letter case; the prefix is compared too.
EqualFold(s, t) == s.id = t.id /\ s.pfx = t.pfx

\* Hash strings seen on the wire; "zz" is not hexadecimal.
HashStrings == {"aa", "zz"}

\* hex.DecodeString
hexDecodeString(s) ==
    CASE s = "aa" -> [err |-> FALSE, bytes |-> <<170>>]
      [] s = "bb" -> [err |-> FALSE, bytes |-> <<187>>]
      [] s = "cc" -> [err |-> FALSE, bytes |-> <<204>>]
      [] OTHER    -> [err |-> TRUE, bytes |-> <<>>]

\* accounts.TextHash: keccak256(0x19 "Ethereum Signed Message:" LF || len || data)
TextHash(bytes) ==
    [prefix |-> "<19>Ethereum Signed Message:<LF>", len |-> Len(bytes), data |-> bytes]

\* Signature strings.  fmt "ok": "0x" and 130 hex digits with a recovery id
\* the library accepts; "nothex": hexutil.Decode fails; "badlen": decodes to
\* other than 65 bytes; "badv": 65 bytes from which no key can be recovered.
SigString(fmt, k, d, v) == [fmt |-> fmt, key |-> k, digest |-> d, variant |-> v]

\* Every key signs the text hash of "aa"; B, C and X sign deterministically
\* (one signature per digest), A's signer also makes other valid signatures
\* of the same digest.  A also signed another hash, and that signature is
\* replayed.
SigVariants(k) == IF k = "A" THEN 1..MaxSigVariants ELSE {1}

GoodSigs ==
    UNION {{SigString("ok", k, TextHash(<<170>>), v) : v \in SigVariants(k)} : k \in Keys}
    \cup {SigString("ok", "A", TextHash(<<187>>), 1)}
BadSigs == {SigString(f, "A", TextHash(<<170>>), 1) : f \in {"nothex", "badlen", "badv"}}
SigStrings == GoodSigs \cup BadSigs

\* Variant: the key is recovered without regard to the message given.
SigToPubAnyMessage(message, sig) ==
    IF sig.fmt = "badv" THEN [err |-> TRUE, addr |-> Stray]
    ELSE [err |-> FALSE, addr |-> sig.key]

\* crypto.SigToPub followed by PubkeyToAddress
SigToPub(message, sig) ==
    IF sig.fmt = "badv" THEN [err |-> TRUE, addr |-> Stray]
    ELSE [err |-> FALSE, addr |-> IF sig.digest = message THEN sig.key ELSE Stray]

verifySignature(message, signatureHex) ==
    IF signatureHex.fmt = "nothex" THEN [err |-> TRUE, addr |-> Stray]
    ELSE IF signatureHex.fmt = "badlen" THEN [err |-> TRUE, addr |-> Stray]
    ELSE SigToPub(message, signatureHex)

----------------------------------------------------------------------------
(* The verifier contract (OracleVerifier.sol) *)

\* The recovery id of a signature: which of the keys that fit (r, s) and
\* the digest is the signer's.
RecId(sig) == sig.variant % 2

\* The 65th byte of a signature string.  crypto.Sign, which MemorySigner.Sign
\* hex-encodes unchanged, writes the recovery id itself, 0 or 1, the form
\* crypto.SigToPub takes; "badv" strings carry 27 plus the recovery id.
SigV(sig) == IF sig.fmt = "badv" THEN 27 + RecId(sig) ELSE RecId(sig)

\* address(0)
addressZero == "0x0000000000000000000000000000000000000000"

\* ecrecover(hash, v, r, s) of the EVM, (r, s) being those of sig: the zero
\* address unless v is 27 or 28.
ecrecover(hash, v, sig) ==
    IF v \notin {27, 28} THEN addressZero
    ELSE IF sig.digest = hash /\ v - 27 = RecId(sig) THEN sig.key
    ELSE Stray

\* keccak256(abi.encodePacked("\x19Ethereum Signed Message:\n32", messageHash));
\* 32 is the length of a bytes32.
ethSignedMessageHash(messageHash) ==
    [prefix |-> "<19>Ethereum Signed Message:<LF>", len |-> Len(messageHash),
     data |-> messageHash]

\* OracleVerifier.recoverSigner(messageHash, signature), the signature being
\* the bytes of a signature string.
recoverSigner(messageHash, signature) ==
    IF signature.fmt \in {"nothex", "badlen"}
    THEN [reverted |-> TRUE, signer |-> addressZero]
    ELSE [reverted |-> FALSE,
          signer |-> ecrecover(ethSignedMessageHash(messageHash), SigV(signature), signature)]

----------------------------------------------------------------------------
(* Configuration *)

\* TRUSTED_ADDRESSES as accepted by parseTrustedAddrsFromEnv
TrustedConfig ==
    << AddrString("A", "lower", TRUE), AddrString("B", "eip55", TRUE),
       AddrString("C", "upper", TRUE) >>

\* The entries of TRUSTED_ADDRESSES after the split at commas and the
\* trim: addresses in several spellings, and a string that is no address.
NotAnAddress == AddrString("", "none", FALSE)
EnvEntries ==
    {AddrString("A", "lower", TRUE), AddrString("A", "eip55", TRUE),
     AddrString("B", "eip55", TRUE), AddrString("C", "upper", TRUE),
     AddrString("C", "lower", FALSE), NotAnAddress}

\* The longest TRUSTED_ADDRESSES followed.
MaxTrusted == 3

\* common.IsHexAddress: 40 hex digits in any letter case, with or without
\* the 0x prefix.
IsHexAddress(s) == s # NotAnAddress

\* parseTrustedAddrsFromEnv: every entry has to be an address; the
\* entries are returned as they are written, in their order.
parseTrustedAddrsFromEnv(entries) ==
    IF entries = <<>> \/ \E i \in 1..Len(entries) : ~IsHexAddress(entries[i])
    THEN [err |-> TRUE, result |-> <<>>]
    ELSE [err |-> FALSE, result |-> entries]

\* The values of TRUSTED_ADDRESSES with n entries.
RECURSIVE EnvLists(_)
EnvLists(n) ==
    IF n = 0 THEN {<<>>}
    ELSE {Append(l, e) : l \in EnvLists(n - 1), e \in EnvEntries}

\* The trusted lists the coordinator starts with.
TrustedLists ==
    LET envs == UNION {EnvLists(n) : n \in 0..MaxTrusted}
    IN  {parseTrustedAddrsFromEnv(e).result :
            e \in {x \in envs : ~parseTrustedAddrsFromEnv(x).err}}

threshold(addrs) == (Len(addrs) \div 2) + 1

\* Variant: only the 0x prefix of the two strings is compared.
isTrustedPrefixOnly(addrs, signerHex) ==
    \E i \in 1..Len(addrs) : addrs[i].pfx = signerHex.pfx

isTrusted(addrs, signerHex) ==
    \E i \in 1..Len(addrs) : EqualFold(signerHex, addrs[i])

----------------------------------------------------------------------------
(* Wire messages *)

\* A sign_request as BuildMessage makes it; the hash is determined by the
\* data and the timestamp, so each hash string has one full request.
BuiltPrice(h) == IF h \in {"aa", "cc"} THEN "100" ELSE "101"
BuiltTimestamp(h) == IF h = "aa" THEN 1000 ELSE IF h = "cc" THEN 1001 ELSE 1003

FullSignRequest(h) ==
    [type |-> MsgTypeSignRequest, hash |-> h,
     data |-> <<"SBER", BuiltPrice(h)>>,
     data_structure |-> <<"string", "uint256">>,
     data_structure_meta |-> <<"ticker", "price">>,
     data_structure_id |-> 0,
     timestamp |-> BuiltTimestamp(h)]

\* The request BroadcastSignRequest publishes: type and hash only.
BareSignRequest(h) ==
    [type |-> MsgTypeSignRequest, hash |-> h,
     data |-> <<>>, data_structure |-> <<>>, data_structure_meta |-> <<>>,
     data_structure_id |-> 0, timestamp |-> 0]

SignResponse(h, sig, peer) ==
    [type |-> MsgTypeSignResponse, hash |-> h, signature |-> sig, peer_id |-> peer]

\* Hashes BuildMessage produced, and the requests seen on the topic: the
\* full request PublishSignRequest sends and the bare one of a rebroadcast.
BuiltHashes == {"aa"}
SignRequests ==
    {FullSignRequest(h) : h \in BuiltHashes} \cup {BareSignRequest(h) : h \in BuiltHashes}
\* peer_id is whatever the sender wrote; here always the address of A.
SignResponses ==
    {SignResponse("aa", sig, Hex("A")) : sig \in SigStrings}
    \cup {SignResponse("zz", SigString("ok", "A", TextHash(<<170>>), 1), Hex("A"))}

\* What json.Unmarshal makes of an inbound payload: "notjson" is not JSON at
\* all, "badfields" is JSON whose fields do not fit the typed struct.
Inbound(json, body) == [json |-> json, body |-> body]

InboundMessages ==
    {Inbound("ok", m) : m \in SignRequests \cup SignResponses}
    \cup {Inbound("ok", [type |-> "ping"])}
    \cup {Inbound("notjson", [type |-> ""])}
    \cup {Inbound("badfields", [type |-> t]) : t \in {MsgTypeSignRequest, MsgTypeSignResponse}}

----------------------------------------------------------------------------
(* Store (LevelDBDatabase) *)

sigKey(hash) == <<signaturePrefix, hash>>
dataKey(hash) == <<dataPrefix, hash>>
dsKey(id) == <<dataStructPrefix, ToString(id)>>
timeIndexKey(id, ts, hash) == <<indexPrefix, ToString(id), ToString(ts), hash>>
fieldIndexKey(id, field, value, hash) == <<indexPrefix, ToString(id), field, value, hash>>

\* json.Marshal / json.Unmarshal of a map[string]string: the text of a JSON
\* object, given by the members of the object.
jsonMarshalMap(m) == [object |-> m]
jsonUnmarshalMap(text) == text.object

\* Faults of the KV engine a call can meet.
StoreSignatureFaults == {"none", "get", "put"}

\* Variant: the error of the final Put is not returned.
StoreSignaturePutErrorLost(kv, hash, signer, signature, fault) ==
    LET key  == sigKey(hash)
        sigs == IF key \in DOMAIN kv THEN jsonUnmarshalMap(kv[key]) ELSE EmptyMap
    IN  IF fault = "get" THEN [err |-> TRUE, db |-> kv]
        ELSE IF fault = "put" THEN [err |-> FALSE, db |-> kv]
        ELSE [err |-> FALSE,
              db |-> MapPut(kv, key, jsonMarshalMap(MapPut(sigs, signer, signature)))]

\* Variant: the map is made anew on every call instead of read back.
StoreSignatureFreshMap(kv, hash, signer, signature, fault) ==
    LET key  == sigKey(hash)
    IN  IF fault = "get" THEN [err |-> TRUE, db |-> kv]
        ELSE IF fault = "put" THEN [err |-> TRUE, db |-> kv]
        ELSE [err |-> FALSE,
              db |-> MapPut(kv, key, jsonMarshalMap(MapPut(EmptyMap, signer, signature)))]

\* Variant: a signer that has an entry keeps its first signature.
StoreSignatureKeepFirst(kv, hash, signer, signature, fault) ==
    LET key  == sigKey(hash)
        sigs == IF key \in DOMAIN kv THEN jsonUnmarshalMap(kv[key]) ELSE EmptyMap
    IN  IF fault = "get" THEN [err |-> TRUE, db |-> kv]
        ELSE IF fault = "put" THEN [err |-> TRUE, db |-> kv]
        ELSE IF signer \in DOMAIN sigs THEN [err |-> FALSE, db |-> kv]
        ELSE [err |-> FALSE,
              db |-> MapPut(kv, key, jsonMarshalMap(MapPut(sigs, signer, signature)))]

StoreSignature(kv, hash, signer, signature, fault) ==
    LET key  == sigKey(hash)
        sigs == IF key \in DOMAIN kv THEN jsonUnmarshalMap(kv[key]) ELSE EmptyMap
    IN  IF fault = "get" THEN [err |-> TRUE, db |-> kv]
        ELSE IF fault = "put" THEN [err |-> TRUE, db |-> kv]
        ELSE [err |-> FALSE,
              db |-> MapPut(kv, key, jsonMarshalMap(MapPut(sigs, signer, signature)))]

\* GetSignatures: the map stored under sig:<hash>, and whether there is one.
GetSignatures(kv, hash) ==
    IF sigKey(hash) \in DOMAIN kv
    THEN [exists |-> TRUE, sigs |-> jsonUnmarshalMap(kv[sigKey(hash)])]
    ELSE [exists |-> FALSE, sigs |-> EmptyMap]

\* The puts StoreData makes, in order; the field indices follow the field
\* order given by perm (Go iterates the field map in no fixed order).
StoreDataPuts(kv, sr, perm) ==
    LET n == Len(sr.data_structure_meta)
        fields == [i \in 1..n |-> sr.data_structure_meta[perm[i]]]
        value(i) == sr.data[perm[i]]
        dsPut == IF dsKey(sr.data_structure_id) \in DOMAIN kv THEN <<>>
                 ELSE << <<dsKey(sr.data_structure_id), sr.data_structure>> >>
        msg == [hash |-> sr.hash, data |-> sr.data,
                data_structure |-> sr.data_structure,
                data_structure_meta |-> sr.data_structure_meta,
                timestamp |-> sr.timestamp]
    IN  dsPut
        \o << <<dataKey(sr.hash), msg>>,
              <<timeIndexKey(sr.data_structure_id, sr.timestamp, sr.hash), <<>> >> >>
        \o [i \in 1..n |->
              <<fieldIndexKey(sr.data_structure_id, fields[i], value(i), sr.hash), <<>> >>]

RECURSIVE ApplyPuts(_, _, _)
ApplyPuts(kv, puts, k) ==
    IF k = 0 THEN kv
    ELSE LET prev == ApplyPuts(kv, puts, k - 1)
         IN  MapPut(prev, puts[k][1], puts[k][2])

\* StoreData: failAt = 0 when every put succeeds, else the first put that
\* fails; the puts before it stay written.
StoreData(kv, sr, perm, failAt) ==
    LET puts == StoreDataPuts(kv, sr, perm)
    IN  IF failAt = 0 \/ failAt > Len(puts)
        THEN [err |-> FALSE, db |-> ApplyPuts(kv, puts, Len(puts))]
        ELSE [err |-> TRUE, db |-> ApplyPuts(kv, puts, failAt - 1)]

----------------------------------------------------------------------------
(* Coordinator handlers (OperatorNode) *)

NoAddr == AddrString("", "", FALSE)

\* The trace of a step: which branch ran, whether the signer of a stored
\* response had been counted before, and the hashes a sweep removed.  The
\* branches that no property looks at are traced as "other"; of a rebroadcast
\* the trace keeps the hashes published.
TracedKinds ==
    {"start", "panic", "untrusted", "unknown_hash", "store_error", "stored", "sweep",
     "rebroadcast", "already_pending"}

Event(kind, hash, addr, dup, hashes) ==
    [kind |-> IF kind \in TracedKinds THEN kind ELSE "other",
     dup |-> dup, hashes |-> hashes]

Outcome(pend, kv, panic, event) ==
    [pending |-> pend, db |-> kv, panic |-> panic, event |-> event]

PendingRequest(t, signers, data) == [timestamp |-> t, signers |-> signers, data |-> data]

\* Variant: the entry is written without the test for an existing one.
handleSignRequestOverwrite(pend, kv, req, t) ==
    Outcome(MapPut(pend, req.hash, PendingRequest(t, {}, req)), kv, FALSE,
            Event("admitted", req.hash, NoAddr, FALSE, {}))

\* Variant: a request for a pending hash renews the timestamp of its entry.
handleSignRequestRefresh(pend, kv, req, t) ==
    IF req.hash \notin DOMAIN pend
    THEN Outcome(MapPut(pend, req.hash, PendingRequest(t, {}, req)), kv, FALSE,
                 Event("admitted", req.hash, NoAddr, FALSE, {}))
    ELSE Outcome(MapPut(pend, req.hash,
                        PendingRequest(t, pend[req.hash].signers, pend[req.hash].data)),
                 kv, FALSE, Event("already_pending", req.hash, NoAddr, FALSE, {}))

handleSignRequest(pend, kv, req, t) ==
    IF req.hash \notin DOMAIN pend
    THEN Outcome(MapPut(pend, req.hash, PendingRequest(t, {}, req)), kv, FALSE,
                 Event("admitted", req.hash, NoAddr, FALSE, {}))
    ELSE Outcome(pend, kv, FALSE, Event("already_pending", req.hash, NoAddr, FALSE, {}))

\* Variant: the entry is deleted as soon as the threshold is reached.
retireAtThreshold(signers, addrs) ==
    Cardinality(signers) >= threshold(addrs)

\* Variant: the comparison with the length of the list is off by one.
retireOffByOne(signers, addrs) ==
    /\ Cardinality(signers) >= threshold(addrs)
    /\ Cardinality(signers) > Len(addrs)

\* handleSignResponse, the test under "Reached threshold": the entry is
\* deleted when every address of the trusted list has been counted.
retire(signers, addrs) ==
    /\ Cardinality(signers) >= threshold(addrs)
    /\ Cardinality(signers) = Len(addrs)

\* Variant: the signature is stored before the hash is looked up.
countSignatureStoreFirst(pend, kv, addrs, hash, signerHex, signature, fault) ==
    LET st == StoreSignature(kv, hash, signerHex, signature, fault)
    IN  IF st.err
        THEN Outcome(pend, kv, FALSE, Event("store_error", hash, signerHex, FALSE, {}))
        ELSE IF hash \notin DOMAIN pend
        THEN Outcome(pend, st.db, FALSE, Event("unknown_hash", hash, signerHex, FALSE, {}))
        ELSE
        LET req == pend[hash]
            signers == req.signers \cup {signerHex}
            dup == signerHex \in req.signers
        IN  IF retire(signers, addrs)
            THEN Outcome(MapDel(pend, {hash}), st.db, FALSE,
                         Event("stored", hash, signerHex, dup, {}))
            ELSE Outcome(MapPut(pend, hash, PendingRequest(req.timestamp, signers, req.data)),
                         st.db, FALSE, Event("stored", hash, signerHex, dup, {}))

\* Variant: the signer is counted although the store write failed.
countSignatureIgnoreStoreError(pend, kv, addrs, hash, signerHex, signature, fault) ==
    IF hash \notin DOMAIN pend
    THEN Outcome(pend, kv, FALSE, Event("unknown_hash", hash, signerHex, FALSE, {}))
    ELSE
    LET st == StoreSignature(kv, hash, signerHex, signature, fault)
        req == pend[hash]
        signers == req.signers \cup {signerHex}
        dup == signerHex \in req.signers
    IN  IF st.err
        THEN Outcome(MapPut(pend, hash, PendingRequest(req.timestamp, signers, req.data)),
                     kv, FALSE, Event("store_error", hash, signerHex, dup, {}))
        ELSE IF retire(signers, addrs)
        THEN Outcome(MapDel(pend, {hash}), st.db, FALSE,
                     Event("stored", hash, signerHex, dup, {}))
        ELSE Outcome(MapPut(pend, hash, PendingRequest(req.timestamp, signers, req.data)),
                     st.db, FALSE, Event("stored", hash, signerHex, dup, {}))

\* handleSignResponse from taking the pending lock on: look the hash up,
\* store the signature, count the signer, retire the entry.
countSignature(pend, kv, addrs, hash, signerHex, signature, fault) ==
    IF hash \notin DOMAIN pend
    THEN Outcome(pend, kv, FALSE, Event("unknown_hash", hash, signerHex, FALSE, {}))
    ELSE
    LET st == StoreSignature(kv, hash, signerHex, signature, fault)
        req == pend[hash]
        signers == req.signers \cup {signerHex}
        dup == signerHex \in req.signers
    IN  IF st.err
        THEN Outcome(pend, kv, FALSE, Event("store_error", hash, signerHex, dup, {}))
        ELSE IF retire(signers, addrs)
        THEN Outcome(MapDel(pend, {hash}), st.db, FALSE,
                     Event("stored", hash, signerHex, dup, {}))
        ELSE Outcome(MapPut(pend, hash, PendingRequest(req.timestamp, signers, req.data)),
                     st.db, FALSE, Event("stored", hash, signerHex, dup, {}))

handleSignResponse(pend, kv, addrs, resp, fault) ==
    LET dec == hexDecodeString(resp.hash)
    IN  IF dec.err
        THEN Outcome(pend, kv, TRUE, Event("panic", resp.hash, NoAddr, FALSE, {}))
        ELSE
        LET v == verifySignature(TextHash(dec.bytes), resp.signature)
            signerHex == Hex(v.addr)
        IN  IF v.err
            THEN Outcome(pend, kv, FALSE, Event("verify_failed", resp.hash, NoAddr, FALSE, {}))
            ELSE IF ~isTrusted(addrs, signerHex)
            THEN Outcome(pend, kv, FALSE, Event("untrusted", resp.hash, signerHex, FALSE, {}))
            ELSE countSignature(pend, kv, addrs, resp.hash, signerHex, resp.signature, fault)

\* The message is a sign_response that handleSignResponse takes as far as
\* its StoreSignature call.
reachesStore(pend, addrs, m) ==
    /\ m.json = "ok"
    /\ m.body.type = MsgTypeSignResponse
    /\ m.body.hash \in DOMAIN pend
    /\ ~hexDecodeString(m.body.hash).err
    /\ LET v == verifySignature(TextHash(hexDecodeString(m.body.hash).bytes), m.body.signature)
       IN  ~v.err /\ isTrusted(addrs, Hex(v.addr))

\* HandleMessage after the first json.Unmarshal succeeded: dispatch on type.
dispatch(pend, kv, addrs, m, t, fault) ==
    IF m.body.type = MsgTypeSignRequest
    THEN IF m.json = "badfields"
         THEN Outcome(pend, kv, FALSE, Event("bad_fields", "", NoAddr, FALSE, {}))
         ELSE handleSignRequest(pend, kv, m.body, t)
    ELSE IF m.body.type = MsgTypeSignResponse
    THEN IF m.json = "badfields"
         THEN Outcome(pend, kv, FALSE, Event("bad_fields", "", NoAddr, FALSE, {}))
         ELSE handleSignResponse(pend, kv, addrs, m.body, fault)
    ELSE Outcome(pend, kv, FALSE, Event("unknown_type", "", NoAddr, FALSE, {}))

\* cleanupExpiredRequests: the hashes the sweep deletes at time t.
expiredHashes(pend, t, expiry) ==
    {h \in DOMAIN pend : t - pend[h].timestamp > expiry}

----------------------------------------------------------------------------
(* Actions *)

EmptyPending == [h \in {} |-> PendingRequest(0, {}, BareSignRequest(""))]
EmptyDb == [k \in {} |-> <<>>]

pendingExpiry == pendingExpiryDefault

\* A query of the store as the trace keeps it; no query has been made.
Answer(op, id, thr, field, value, page, limit, result) ==
    [op |-> op, id |-> id, thr |-> thr, field |-> field, value |-> value,
     page |-> page, limit |-> limit, result |-> result]

NoAnswer == Answer("none", 0, 0, "", "", 0, 0, <<>>)

\* One call of topic.Publish: the payload, and whether the call returned
\* without error.
Published(msg, ok) == [msg |-> msg, delivered |-> ok]

\* What is kept of a retry tick: the hashes pending when it was taken, and
\* the calls of topic.Publish made for it so far.
RetryLog(at, published) == [at |-> at, published |-> published]

\* The goroutines followed beside listen and healthMonitor: the
\* coordinator's retryPendingRequests, peerDiscovery and
\* peerGarbageCollector, the signer's listen and connectionMonitor.
CoordinatorBgTasks == {"retry", "discovery", "gc"}
NodeBgTasks == {"nodeListen", "monitor"}
BgTasks == CoordinatorBgTasks \cup NodeBgTasks

\* The reader/writer locks of the coordinator process: o.pendingMux,
\* o.knownPeersMux and ldb.mu; the goroutines that take them; a goroutine
\* that runs no operation.
Mutexes == {"pendingMux", "knownPeersMux", "mu"}
StoreTasks == {"listen", "worker", "rpc"}
LockTasks == StoreTasks \cup {"retry", "discovery", "gc", "health"}
LkIdle == [prog |-> "idle", at |-> 0]

\* Two coordinators subscribed to one topic.
Coordinators == {1, 2}

\* The goroutines that call resubscribe.
Tasks == {"listen", "health"}

\* A nil *pubsub.Subscription.
NilSub == 0

\* A call of resubscribe: where it is, its loop variable i, the Subscribe
\* calls it made, the sleepTime of its wait and whether that time has
\* passed, and what it returned.
ResubCall(pc, i, tries, sleepTime, fired, result) ==
    [pc |-> pc, i |-> i, tries |-> tries, sleepTime |-> sleepTime, fired |-> fired,
     result |-> result]

ResubIdle == ResubCall("idle", 0, 0, 0, FALSE, "none")

\* The goroutines that call StoreSignature at the same time, and the state
\* of a caller: where it is in the call, the arguments, the map it read,
\* the calls it made and those that returned nil.
Callers == {1, 2}
Call(pc, hash, signer, sigs, made, stored) ==
    [pc |-> pc, hash |-> hash, signer |-> signer, sigs |-> sigs, made |-> made,
     stored |-> stored]
NoCall == Call("idle", "", "", <<>>, 0, {})

\* The trace of a step of the signer: the branch taken and, for a message
\* it ignored, the type of the message.
SignerEvent(kind, type) == [kind |-> kind, type |-> type]

\* The state after NewOperatorNode, for the trusted list addrs.
InitWith(addrs) ==
    /\ running = TRUE
    /\ now = 0
    /\ ticks = 0
    /\ trustedAddrs = addrs
    /\ pending = EmptyPending
    /\ lastMessageTime = NoTime
    /\ db = EmptyDb
    /\ lastEvent = Event("start", "", NoAddr, FALSE, {})
    /\ loopPc = "select"
    /\ snapshot = <<>>
    /\ publishEnds = 0
    /\ tickerC = FALSE
    /\ tickerExpiredC = FALSE
    /\ inflight = 0
    /\ retryLog = RetryLog({}, <<>>)
    /\ sgRunning = TRUE
    /\ sgOutbox = <<>>
    /\ sgLastEvent = SignerEvent("start", "")
    /\ sgInbox = {}
    /\ wkPc = "idle"
    /\ wkReq = BareSignRequest("")
    /\ wkAttempt = 0
    /\ wkTopic = <<>>
    /\ answer = NoAnswer
    /\ mu = {}
    /\ calls = [p \in Callers |-> NoCall]
    /\ topicSubs = {}
    /\ rootDone = FALSE
    /\ sub = 1
    /\ subCancelled = {}
    /\ subNext = 2
    /\ lsPc = "select"
    /\ lsSub = NilSub
    /\ hmPc = "select"
    /\ consecutiveTimeouts = 0
    /\ rs = [c \in Tasks |-> ResubIdle]
    /\ observed = "none"
    /\ nodeDone = FALSE
    /\ bg = [t \in BgTasks |-> "select"]
    /\ sgSub = TRUE
    /\ sgResubI = 0
    /\ connected = {}
    /\ knownPeers = <<>>
    /\ peerstore = {}
    /\ peerNow = 0
    /\ peerDue = {}
    /\ tried = {}
    /\ lkPc = [t \in LockTasks |-> LkIdle]
    /\ lkHeld = [t \in LockTasks |-> <<>>]
    /\ lkW = [l \in Mutexes |-> "none"]
    /\ aggTick = [n |-> 0, outcomes |-> <<>>, result |-> [err |-> "none", price |-> 0]]
    /\ mPending = [c \in Coordinators |-> EmptyPending]
    /\ mInbox = [c \in Coordinators |-> 0]
    /\ mDue = [c \in Coordinators |-> {}]
    /\ mPhase = 0
    /\ mAuthored = FALSE

Init == InitWith(TrustedConfig)

\* listen: one message read from the subscription and handled.
HandleMessage(m, fault) ==
    /\ running
    /\ fault # "none" => reachesStore(pending, trustedAddrs, m)
    /\ IF m.json = "notjson"
       THEN /\ lastEvent' = Event("bad_json", "", NoAddr, FALSE, {})
            /\ UNCHANGED <<running, pending, lastMessageTime, db>>
       ELSE LET r == dispatch(pending, db, trustedAddrs, m, now, fault)
            IN  IF r.panic
                THEN /\ lastEvent' = r.event
                     /\ running' = FALSE
                     /\ pending' = EmptyPending
                     /\ lastMessageTime' = NoTime
                     /\ db' = r.db
                ELSE /\ lastEvent' = r.event
                     /\ pending' = r.pending
                     /\ db' = r.db
                     /\ lastMessageTime' = now
                     /\ UNCHANGED running
    /\ UNCHANGED <<now, ticks, trustedAddrs>>
    /\ UNCHANGED loopVars
    /\ UNCHANGED sideVars

\* retryPendingRequests, case <-ticker.C: rebroadcast a snapshot of pending.
RetryTick ==
    /\ running
    /\ lastEvent' = Event("rebroadcast", "", NoAddr, FALSE, DOMAIN pending)
    /\ UNCHANGED <<running, now, ticks, trustedAddrs, pending, lastMessageTime, db>>
    /\ UNCHANGED loopVars
    /\ UNCHANGED sideVars

\* retryPendingRequests, case <-tickerExpired.C
CleanupExpiredRequests ==
    /\ running
    /\ LET gone == expiredHashes(pending, now, pendingExpiry)
       IN  /\ pending' = MapDel(pending, gone)
           /\ lastEvent' = Event("sweep", "", NoAddr, FALSE, gone)
    /\ UNCHANGED <<running, now, ticks, trustedAddrs, lastMessageTime, db>>
    /\ UNCHANGED loopVars
    /\ UNCHANGED sideVars

\* Worker.Run -> PubSubService.PublishSignRequest: store the record, then
\* publish the full request.
Perms2 == { <<1, 2>>, <<2, 1>> }
SpecStoreDataFaults == {0, 1}

PublishSignRequest(h, perm, failAt) ==
    /\ running
    /\ LET st == StoreData(db, FullSignRequest(h), perm, failAt)
       IN  /\ db' = st.db
           /\ lastEvent' = Event(IF st.err THEN "store_data_error" ELSE "published",
                                 h, NoAddr, FALSE, {})
    /\ UNCHANGED <<running, now, ticks, trustedAddrs, pending, lastMessageTime>>
    /\ UNCHANGED loopVars
    /\ UNCHANGED sideVars

\* Time passes; one step takes an entry past its expiry.
TickSteps == {pendingExpiry + 1}

Tick(d) ==
    /\ ticks < MaxTicks
    /\ now' = now + d
    /\ ticks' = ticks + 1
    /\ UNCHANGED <<running, trustedAddrs, pending, lastMessageTime, db, lastEvent>>
    /\ UNCHANGED loopVars
    /\ UNCHANGED sideVars

\* The process is started again after a crash: main opens the same
\* database and NewOperatorNode makes an empty pending table.
Restart ==
    /\ ~running
    /\ running' = TRUE
    /\ pending' = EmptyPending
    /\ lastMessageTime' = NoTime
    /\ lastEvent' = Event("start", "", NoAddr, FALSE, {})
    /\ UNCHANGED <<now, ticks, trustedAddrs, db>>
    /\ UNCHANGED loopVars
    /\ UNCHANGED sideVars

Next ==
    \/ \E m \in InboundMessages, fault \in StoreSignatureFaults : HandleMessage(m, fault)
    \/ RetryTick
    \/ CleanupExpiredRequests
    \/ \E h \in BuiltHashes, perm \in Perms2, failAt \in SpecStoreDataFaults :
          PublishSignRequest(h, perm, failAt)
    \/ \E d \in TickSteps : Tick(d)
    \/ Restart

Spec == Init /\ [][Next]_vars

----------------------------------------------------------------------------
(* The retry / expiry loop in time, specification SpecTime                 *)
(*                                                                         *)
(* retryPendingRequests is one goroutine that serves both tickers.  The    *)
(* clock moves in steps of the retry interval; a tick is put into a        *)
(* ticker's channel (capacity 1) whenever the clock reaches a multiple of  *)
(* its period.  A step the goroutine can take without waiting is taken     *)
(* before the clock moves on.                                              *)

\* How long one topic.Publish of a rebroadcast can take: it returns at once
\* or blocks until the publish timeout.
PublishDurations == {0, publishTimeout}

\* Variant: the rebroadcast carries a type that no signer answers.
BroadcastSignRequestOtherType(hash) == [type |-> "retry", hash |-> hash]

\* BroadcastSignRequest(hash): the payload handed to topic.Publish.
BroadcastSignRequest(hash) == BareSignRequest(hash)

\* Variant: the snapshot leaves out bb whenever aa is pending with it.
pendingHashesFirstOnly(pend) ==
    SelectSeq(<<"aa", "bb", "zz">>,
              LAMBDA h : h \in DOMAIN pend /\ \A g \in DOMAIN pend : g = h \/ h \in {"aa"})

\* for hash := range o.pending: the snapshot of the pending hashes.
pendingHashes(pend) == SelectSeq(<<"aa", "bb", "zz">>, LAMBDA h : h \in DOMAIN pend)

\* The goroutine has a step it takes without waiting.
LoopReady ==
    \/ loopPc = "select" /\ (tickerC \/ tickerExpiredC)
    \/ loopPc = "publishing" /\ now >= publishEnds

ClockAdvance ==
    /\ ~LoopReady
    /\ ticks < MaxClockSteps
    /\ ticks' = ticks + 1
    /\ now' = now + retryInterval
    /\ tickerC' = (tickerC \/ (now' % retryInterval = 0))
    /\ tickerExpiredC' = (tickerExpiredC \/ (now' % sweepInterval = 0))
    /\ UNCHANGED <<running, trustedAddrs, pending, lastMessageTime, db, lastEvent>>
    /\ UNCHANGED <<loopPc, snapshot, publishEnds, inflight, retryLog>>
    /\ UNCHANGED sideVars

\* select takes case <-ticker.C: snapshot the pending hashes and start to
\* publish them one after the other.
LoopRetryTick(d) ==
    /\ running
    /\ loopPc = "select"
    /\ tickerC
    /\ tickerC' = FALSE
    /\ snapshot' = pendingHashes(pending)
    /\ IF snapshot' = <<>>
       THEN /\ loopPc' = "select"
            /\ publishEnds' = publishEnds
       ELSE /\ loopPc' = "publishing"
            /\ publishEnds' = now + d
    /\ retryLog' = RetryLog(DOMAIN pending, <<>>)
    /\ lastEvent' = Event("rebroadcast", "", NoAddr, FALSE, DOMAIN pending)
    /\ UNCHANGED <<running, now, ticks, trustedAddrs, pending, lastMessageTime, db>>
    /\ UNCHANGED <<tickerExpiredC, inflight>>
    /\ UNCHANGED sideVars

\* BroadcastSignRequest returns: the message is on the topic (ok) or the
\* publish failed; the loop goes on to the next hash of the snapshot.
LoopPublishDone(ok, d) ==
    /\ running
    /\ loopPc = "publishing"
    /\ now >= publishEnds
    /\ ok => inflight < MaxInFlight
    /\ inflight' = IF ok THEN inflight + 1 ELSE inflight
    /\ retryLog' = [retryLog EXCEPT
                       !.published = Append(@, Published(BroadcastSignRequest(Head(snapshot)), ok))]
    /\ snapshot' = Tail(snapshot)
    /\ IF snapshot' = <<>>
       THEN /\ loopPc' = "select"
            /\ publishEnds' = publishEnds
       ELSE /\ loopPc' = "publishing"
            /\ publishEnds' = now + d
    /\ UNCHANGED coreVars
    /\ UNCHANGED <<tickerC, tickerExpiredC>>
    /\ UNCHANGED sideVars

\* select takes case <-tickerExpired.C
LoopSweepTick ==
    /\ running
    /\ loopPc = "select"
    /\ tickerExpiredC
    /\ tickerExpiredC' = FALSE
    /\ LET gone == expiredHashes(pending, now, pendingExpiry)
       IN  /\ pending' = MapDel(pending, gone)
           /\ lastEvent' = Event("sweep", "", NoAddr, FALSE, gone)
    /\ UNCHANGED <<running, now, ticks, trustedAddrs, lastMessageTime, db>>
    /\ UNCHANGED <<loopPc, snapshot, publishEnds, tickerC, inflight, retryLog>>
    /\ UNCHANGED sideVars

\* listen reads a sign_request another node published; such requests arrive
\* during the first MaxRequestSteps steps of the clock.
ListenSignRequest(req) ==
    /\ running
    /\ ticks < MaxRequestSteps
    /\ LET r == handleSignRequest(pending, db, req, now)
       IN  /\ pending' = r.pending
           /\ lastEvent' = r.event
    /\ lastMessageTime' = now
    /\ UNCHANGED <<running, now, ticks, trustedAddrs, db>>
    /\ UNCHANGED loopVars
    /\ UNCHANGED sideVars

\* listen reads one of the coordinator's own rebroadcasts back from the
\* topic.
ListenOwnRebroadcast ==
    /\ running
    /\ inflight > 0
    /\ inflight' = inflight - 1
    /\ LET r == handleSignRequest(pending, db, BareSignRequest("aa"), now)
       IN  /\ pending' = r.pending
           /\ lastEvent' = r.event
    /\ lastMessageTime' = now
    /\ UNCHANGED <<running, now, ticks, trustedAddrs, db>>
    /\ UNCHANGED <<loopPc, snapshot, publishEnds, tickerC, tickerExpiredC, retryLog>>
    /\ UNCHANGED sideVars

NextTime ==
    \/ ClockAdvance
    \/ \E d \in PublishDurations : LoopRetryTick(d)
    \/ \E ok \in BOOLEAN, d \in PublishDurations : LoopPublishDone(ok, d)
    \/ LoopSweepTick
    \/ \E req \in SignRequests : ListenSignRequest(req)
    \/ ListenOwnRebroadcast

SpecTime == Init /\ [][NextTime]_vars

----------------------------------------------------------------------------
(* The retry loop beside the listen loop, specification SpecRetry: several *)
(* hashes are pending, responses arrive while the loop publishes.          *)

RetryHashes == {"aa", "bb"}

\* The responses of the trusted signers for aa.
RetryResponses ==
    {Inbound("ok", SignResponse("aa", SigString("ok", k, TextHash(<<170>>), 1), Hex("A"))) :
        k \in {"A", "B", "C"}}

\* The retry interval passes and the ticker puts a tick into ticker.C.
RetryTickerFires ==
    /\ ticks < MaxRetryTicks
    /\ ticks' = ticks + 1
    /\ now' = now + retryInterval
    /\ tickerC' = TRUE
    /\ UNCHANGED <<running, trustedAddrs, pending, lastMessageTime, db, lastEvent>>
    /\ UNCHANGED <<loopPc, snapshot, publishEnds, tickerExpiredC, inflight, retryLog>>
    /\ UNCHANGED sideVars

NextRetry ==
    \/ RetryTickerFires
    \/ LoopRetryTick(0)
    \/ \E ok \in BOOLEAN : LoopPublishDone(ok, 0)
    \/ \E h \in RetryHashes : ListenSignRequest(FullSignRequest(h))
    \/ \E m \in RetryResponses : HandleMessage(m, "none")
    \/ ListenOwnRebroadcast

SpecRetry == Init /\ [][NextRetry]_vars

----------------------------------------------------------------------------
(* One hash from admission to retirement, specification SpecRetire: the    *)
(* retry loop beside the listen loop, which reads the request for aa, the  *)
(* responses of the trusted signers for aa and the coordinator's own       *)
(* rebroadcasts of aa.                                                     *)

NextRetire ==
    \/ RetryTickerFires
    \/ LoopRetryTick(0)
    \/ \E ok \in BOOLEAN : LoopPublishDone(ok, 0)
    \/ ListenSignRequest(FullSignRequest("aa"))
    \/ \E m \in RetryResponses : HandleMessage(m, "none")
    \/ ListenOwnRebroadcast

SpecRetire == Init /\ [][NextRetire]_vars

----------------------------------------------------------------------------
(* Two coordinators on one topic, specifications SpecMirror and            *)
(* SpecMirrorFair.  One hash, aa, is requested; a trusted signer never     *)
(* answers, so no entry gets a full set and the responses are left out.    *)
(* Every message published on the topic reaches the subscription of both   *)
(* coordinators.  The clock moves in steps of the retry interval once the  *)
(* tickers that fired are served and the subscriptions are read; times are *)
(* kept relative to the present (the present is 0, a timestamp is minus    *)
(* the age of the entry).                                                  *)

notMirrorVars == <<coreVars, loopVars, signerVars, workerVars, queryVars, lockVars, lateVars, subVars, cancelVars, peerVars, orderVars, aggVars>>

MirrorHash == "aa"

\* When within a sweep interval the expiry ticker of a coordinator fires:
\* the two processes were not started at the same moment.
SweepPhase(c) == IF c = 1 THEN 0 ELSE 30

\* The table after d seconds: every entry is d older.  An entry older
\* than the expiry and one sweep interval does not occur.
Aged(pend, d) ==
    [h \in DOMAIN pend |->
        PendingRequest(pend[h].timestamp - d, pend[h].signers, pend[h].data)]

\* The collection worker of a coordinator publishes the request for aa.
MirrorPublishRequest ==
    /\ ~mAuthored
    /\ mAuthored' = TRUE
    /\ mInbox' = [c \in Coordinators |-> mInbox[c] + 1]
    /\ UNCHANGED <<mPending, mDue, mPhase>>
    /\ UNCHANGED notMirrorVars

\* The retry interval passes: the retry ticker of each coordinator fires,
\* and its expiry ticker when its sweep interval is over.
MirrorClock ==
    /\ \A c \in Coordinators : mDue[c] = {} /\ mInbox[c] = 0
    /\ mPhase' = (mPhase + retryInterval) % sweepInterval
    /\ mPending' = [c \in Coordinators |-> Aged(mPending[c], retryInterval)]
    /\ mDue' = [c \in Coordinators |->
                  {"retry"} \cup (IF mPhase' = SweepPhase(c) THEN {"sweep"} ELSE {})]
    /\ UNCHANGED <<mInbox, mAuthored>>
    /\ UNCHANGED notMirrorVars

\* Coordinator c serves its retry ticker: every hash of the snapshot is
\* published (ok: the publish succeeds).
MirrorRetryTick(c, ok) ==
    /\ "retry" \in mDue[c]
    /\ mDue' = [mDue EXCEPT ![c] = @ \ {"retry"}]
    /\ mInbox' = [d \in Coordinators |->
                    IF ok THEN mInbox[d] + Len(pendingHashes(mPending[c])) ELSE mInbox[d]]
    /\ UNCHANGED <<mPending, mPhase, mAuthored>>
    /\ UNCHANGED notMirrorVars

\* Coordinator c serves its expiry ticker: cleanupExpiredRequests.
MirrorSweepTick(c) ==
    /\ "sweep" \in mDue[c]
    /\ mDue' = [mDue EXCEPT ![c] = @ \ {"sweep"}]
    /\ mPending' = [mPending EXCEPT
                       ![c] = MapDel(@, expiredHashes(@, 0, pendingExpiry))]
    /\ UNCHANGED <<mInbox, mPhase, mAuthored>>
    /\ UNCHANGED notMirrorVars

\* The listen loop of coordinator c reads a sign_request for aa.
MirrorListen(c) ==
    /\ mInbox[c] > 0
    /\ mInbox' = [mInbox EXCEPT ![c] = @ - 1]
    /\ mPending' = [mPending EXCEPT
                       ![c] = handleSignRequest(@, db, BareSignRequest(MirrorHash), 0).pending]
    /\ UNCHANGED <<mDue, mPhase, mAuthored>>
    /\ UNCHANGED notMirrorVars

NextMirror ==
    \/ MirrorPublishRequest
    \/ MirrorClock
    \/ \E c \in Coordinators, ok \in BOOLEAN : MirrorRetryTick(c, ok)
    \/ \E c \in Coordinators : MirrorSweepTick(c)
    \/ \E c \in Coordinators : MirrorListen(c)

SpecMirror == Init /\ [][NextMirror]_vars

\* Time passes, and every goroutine is scheduled.
MirrorFairness ==
    /\ WF_vars(MirrorClock)
    /\ \A c \in Coordinators :
          /\ WF_vars(\E ok \in BOOLEAN : MirrorRetryTick(c, ok))
          /\ WF_vars(MirrorSweepTick(c))
          /\ WF_vars(MirrorListen(c))

SpecMirrorFair == SpecMirror /\ MirrorFairness

----------------------------------------------------------------------------
(* The coordinator started with any accepted trusted list, specification   *)
(* SpecQuorum: the request for aa and the responses of A, B and C.         *)

InitQuorum == \E addrs \in TrustedLists : InitWith(addrs)

NextQuorum ==
    \/ ListenSignRequest(FullSignRequest("aa"))
    \/ \E m \in RetryResponses : HandleMessage(m, "none")

SpecQuorum == InitQuorum /\ [][NextQuorum]_vars

----------------------------------------------------------------------------
(* The signer node (Node, MemorySigner), specification SpecSigner *)

\* The key pair of this signer.
SignerKey == "A"

\* MemorySigner.Address: the address NewMemorySigner took from the key.
Address(k) == Hex(k)

\* MemorySigner.Sign: crypto.Sign of the message with the node's key, hex
\* encoded with the 0x prefix; one signature per message.
Sign(k, message, fault) ==
    IF fault THEN [err |-> TRUE, signature |-> SigString("none", k, message, 0)]
    ELSE [err |-> FALSE, signature |-> SigString("ok", k, message, 1)]

NodeOutcome(out, panic, event) == [outbox |-> out, panic |-> panic, event |-> event]

\* Variant: the raw hash bytes are signed instead of their text hash.
NodeHandleSignRequestRawHash(out, k, req, signFault, pubFault) ==
    LET dec == hexDecodeString(req.hash)
    IN  IF dec.err
        THEN NodeOutcome(out, TRUE, SignerEvent("panic", req.type))
        ELSE
        LET sg == Sign(k, dec.bytes, signFault)
            resp == SignResponse(req.hash, sg.signature, Address(k))
        IN  IF sg.err
            THEN NodeOutcome(out, FALSE, SignerEvent("sign_error", req.type))
            ELSE NodeOutcome(Append(out, Published(resp, ~pubFault)), FALSE,
                             SignerEvent(IF pubFault THEN "publish_error" ELSE "published",
                                         req.type))

\* Node.handleSignRequest
NodeHandleSignRequest(out, k, req, signFault, pubFault) ==
    LET dec == hexDecodeString(req.hash)
    IN  IF dec.err
        THEN NodeOutcome(out, TRUE, SignerEvent("panic", req.type))
        ELSE
        LET sg == Sign(k, TextHash(dec.bytes), signFault)
            resp == SignResponse(req.hash, sg.signature, Address(k))
        IN  IF sg.err
            THEN NodeOutcome(out, FALSE, SignerEvent("sign_error", req.type))
            ELSE NodeOutcome(Append(out, Published(resp, ~pubFault)), FALSE,
                             SignerEvent(IF pubFault THEN "publish_error" ELSE "published",
                                         req.type))

\* The signer's SignRequest struct keeps the type and the hash of a payload.
NodeSignRequest(body) == [type |-> body.type, hash |-> body.hash]

\* Variant: every payload that carries a hash is answered.
NodeDispatchAnyHash(out, k, m, signFault, pubFault) ==
    IF m.json = "notjson"
    THEN NodeOutcome(out, FALSE, SignerEvent("bad_json", ""))
    ELSE IF m.json = "ok" /\ "hash" \in DOMAIN m.body
    THEN NodeHandleSignRequest(out, k, NodeSignRequest(m.body), signFault, pubFault)
    ELSE NodeOutcome(out, FALSE, SignerEvent("ignored", m.body.type))

\* Node.HandleMessage: parse {type}, then switch on it.
NodeDispatch(out, k, m, signFault, pubFault) ==
    IF m.json = "notjson"
    THEN NodeOutcome(out, FALSE, SignerEvent("bad_json", ""))
    ELSE IF m.body.type = MsgTypeSignRequest
    THEN IF m.json = "badfields"
         THEN NodeOutcome(out, FALSE, SignerEvent("bad_fields", m.body.type))
         ELSE NodeHandleSignRequest(out, k, NodeSignRequest(m.body), signFault, pubFault)
    ELSE NodeOutcome(out, FALSE, SignerEvent("ignored", m.body.type))

\* What a signer reads from the topic: the traffic the coordinator sees, and
\* requests for other hash strings.
SignerInbound ==
    InboundMessages \cup {Inbound("ok", BareSignRequest(h)) : h \in {"bb", "zz"}}

\* The payload is a sign_request that handleSignRequest takes as far as its
\* Sign call.
reachesSign(m) ==
    /\ m.json = "ok"
    /\ m.body.type = MsgTypeSignRequest
    /\ ~hexDecodeString(m.body.hash).err

\* Node.listen: one message read from the subscription and handled.
NodeHandleMessage(m, signFault, pubFault) ==
    /\ sgRunning
    /\ Len(sgOutbox) < MaxSignerPublishes
    /\ (signFault \/ pubFault) => reachesSign(m)
    /\ ~(signFault /\ pubFault)
    /\ LET r == NodeDispatch(sgOutbox, SignerKey, m, signFault, pubFault)
       IN  /\ sgOutbox' = r.outbox
           /\ sgLastEvent' = r.event
           /\ sgRunning' = ~r.panic
           /\ sgInbox' = IF r.panic THEN {} ELSE sgInbox \ {m}
    /\ UNCHANGED <<coreVars, loopVars, workerVars, queryVars, moreVars>>

\* The signer process is started again after a crash.
NodeRestart ==
    /\ ~sgRunning
    /\ sgRunning' = TRUE
    /\ sgLastEvent' = SignerEvent("start", "")
    /\ UNCHANGED <<sgOutbox, sgInbox>>
    /\ UNCHANGED <<coreVars, loopVars, workerVars, queryVars, moreVars>>

NextSigner ==
    \/ \E m \in SignerInbound, signFault \in BOOLEAN, pubFault \in BOOLEAN :
          NodeHandleMessage(m, signFault, pubFault)
    \/ NodeRestart

SpecSigner == Init /\ [][NextSigner]_vars

----------------------------------------------------------------------------
(* A signer that subscribes late, specifications SpecLate and SpecLateFair: *)
(* the coordinator's rebroadcasts reach the signers subscribed when they    *)
(* are published, the signer answers, the coordinator handles the answers.  *)

LateHash == "aa"

\* The original publish of the request reaches the coordinator before the
\* signer is subscribed.
LateAdmit ==
    /\ topicSubs = {}
    /\ HandleMessage(Inbound("ok", FullSignRequest(LateHash)), "none")

\* The signer's topic.Subscribe: from now on Publish delivers to it.
LateSubscribe ==
    /\ topicSubs = {}
    /\ topicSubs' = {SignerKey}
    /\ UNCHANGED <<coreVars, loopVars, signerVars, workerVars, queryVars, lockVars, subVars, cancelVars, peerVars, orderVars, aggVars, mirrorVars>>

\* retryPendingRequests, case <-ticker.C, with the subscribers of the topic:
\* the Publish calls of the hashes in sent return nil, and their payloads
\* reach every subscribed signer.
LateRetryTick(sent) ==
    /\ running
    /\ sent \subseteq DOMAIN pending
    /\ lastEvent' = Event("rebroadcast", "", NoAddr, FALSE, DOMAIN pending)
    /\ sgInbox' = IF SignerKey \in topicSubs
                  THEN sgInbox \cup {Inbound("ok", BroadcastSignRequest(h)) : h \in sent}
                  ELSE sgInbox
    /\ UNCHANGED <<running, now, ticks, trustedAddrs, pending, lastMessageTime, db>>
    /\ UNCHANGED <<sgRunning, sgOutbox, sgLastEvent>>
    /\ UNCHANGED <<loopVars, workerVars, queryVars, moreVars>>

\* The signer reads a rebroadcast from its subscription.  Its Publish fails
\* only while the outbox has room for the attempt after it.
LateSignerReads(signFault, pubFault) ==
    /\ Len(sgOutbox) < MaxLateAnswers
    /\ pubFault => Len(sgOutbox) + 1 < MaxLateAnswers
    /\ \E m \in sgInbox : NodeHandleMessage(m, signFault, pubFault)

\* The responses on the topic: that of another trusted signer, and the
\* ones this signer published without error.  A response handled with a
\* storage error is asked for again by the next rebroadcast and signed to
\* the same signature, so it stays available.
LateResponses ==
    {Inbound("ok", SignResponse(LateHash, SigString("ok", k, TextHash(<<170>>), 1), Hex("A"))) :
        k \in {"B"}}
    \cup {Inbound("ok", sgOutbox[i].msg) : i \in {j \in 1..Len(sgOutbox) : sgOutbox[j].delivered}}

\* listen handles a response.
LateHandleResponse(fault) == \E m \in LateResponses : HandleMessage(m, fault)

\* listen handles a response of this signer and the store takes it.
LateHandleOwnResponse ==
    \E i \in 1..Len(sgOutbox) :
        /\ sgOutbox[i].delivered
        /\ HandleMessage(Inbound("ok", sgOutbox[i].msg), "none")

NextLate ==
    \/ LateAdmit
    \/ LateSubscribe
    \/ \E sent \in SUBSET {LateHash} : LateRetryTick(sent)
    \/ \E signFault \in BOOLEAN, pubFault \in BOOLEAN : LateSignerReads(signFault, pubFault)
    \/ \E fault \in StoreSignatureFaults : LateHandleResponse(fault)
    \/ \E d \in TickSteps : Tick(d)
    \/ CleanupExpiredRequests

SpecLate == Init /\ [][NextLate]_vars

\* The retry ticker keeps firing and a Publish does not fail for ever; the
\* signer's goroutine runs and Sign does not fail for ever, however often a
\* failed attempt takes the request out of its subscription; listen reads
\* what the topic delivers and the store does not fail for ever.
LateFairness ==
    /\ WF_vars(LateRetryTick({LateHash}))
    /\ SF_vars(LateSignerReads(FALSE, FALSE))
    /\ WF_vars(LateHandleOwnResponse)

SpecLateFair == SpecLate /\ LateFairness

----------------------------------------------------------------------------
(* The collection worker's publish call, specification SpecWorker *)

\* The requests BuildMessage hands to PublishSignRequest.
WorkerHashes == {"aa", "bb"}

\* The points at which a put of StoreData can fail (0: none fails).
StoreDataFaults == 0..5

\* Variant: the call goes on to publish whatever StoreData returned.
afterStoreDataIgnoreError(err) == "publishing"

\* PublishSignRequest after its StoreData call: return the error, or go on
\* to marshal and publish.
afterStoreData(err) == IF err THEN "idle" ELSE "publishing"

\* PublishSignRequest is called and runs up to the return of StoreData.
PublishSignRequestStore(h, perm, failAt) ==
    /\ running
    /\ wkPc = "idle"
    /\ Len(wkTopic) < MaxWorkerPublishes
    /\ LET sr == FullSignRequest(h)
           st == StoreData(db, sr, perm, failAt)
       IN  /\ db' = st.db
           /\ wkPc' = afterStoreData(st.err)
           /\ wkReq' = sr
    /\ wkAttempt' = 0
    /\ UNCHANGED wkTopic
    /\ UNCHANGED <<running, now, ticks, trustedAddrs, pending, lastMessageTime, lastEvent>>
    /\ UNCHANGED <<loopVars, signerVars, queryVars, moreVars>>

\* One pass of the retry loop: topic.Publish returns nil (the payload is on
\* the topic, the call returns) or an error (the next attempt follows, the
\* call returns the error after maxRetries attempts).
PublishSignRequestAttempt(ok) ==
    /\ running
    /\ wkPc = "publishing"
    /\ wkAttempt < maxRetries
    /\ IF ok
       THEN /\ wkTopic' = Append(wkTopic, wkReq)
            /\ wkPc' = "idle"
            /\ UNCHANGED wkAttempt
       ELSE /\ wkAttempt' = wkAttempt + 1
            /\ wkPc' = IF wkAttempt + 1 < maxRetries THEN "publishing" ELSE "idle"
            /\ UNCHANGED wkTopic
    /\ UNCHANGED wkReq
    /\ UNCHANGED <<coreVars, loopVars, signerVars, queryVars, moreVars>>

NextWorker ==
    \/ \E h \in WorkerHashes, perm \in Perms2, failAt \in StoreDataFaults :
          PublishSignRequestStore(h, perm, failAt)
    \/ \E ok \in BOOLEAN : PublishSignRequestAttempt(ok)

SpecWorker == Init /\ [][NextWorker]_vars

----------------------------------------------------------------------------
(* Building a request (StockQuoteMessageBuilder), specification SpecBuild *)

\* Go values of a []interface{}: a string, an int or int64, the float64
\* that json.Unmarshal makes of a number, and nil.
GoString(s) == [kind |-> "string", s |-> s, n |-> 0]
GoInt(n) == [kind |-> "int64", s |-> "", n |-> n]
GoFloat64(n) == [kind |-> "float64", s |-> "", n |-> n]
GoNil == [kind |-> "nil", s |-> "", n |-> 0]

\* The builder's configuration, the prices the aggregator returns and the
\* values time.Now().Unix() takes.
BuilderTicker == "SBER"
DestinationChain == 1
BuildPrices == {100, 101}
BuildTimes == {1000, 1001}
Structures ==
    { << [Name |-> "ticker", SolidityType |-> "string"],
         [Name |-> "price", SolidityType |-> "uint256"] >>,
      << [Name |-> "timestamp", SolidityType |-> "uint256"],
         [Name |-> "destination_chain", SolidityType |-> "uint256"] >>,
      << [Name |-> "price", SolidityType |-> "uint256"],
         [Name |-> "volume", SolidityType |-> "uint256"] >> }

\* json.Marshal of one value: the token written.  A float64 without a
\* fraction and below 1e21 is written with its digits, as an integer is.
jsonMarshalValue(v) ==
    CASE v.kind = "string"  -> [tok |-> "string", text |-> v.s]
      [] v.kind = "int64"   -> [tok |-> "number", text |-> ToString(v.n)]
      [] v.kind = "float64" -> [tok |-> "number", text |-> ToString(v.n)]
      [] OTHER              -> [tok |-> "null", text |-> "null"]

\* json.Marshal of a []interface{}: the text of the array, token by token.
jsonMarshalData(data) == [i \in 1..Len(data) |-> jsonMarshalValue(data[i])]

\* The numbers that occur in the texts.
JsonNumbers == BuildTimes \cup {DestinationChain}

\* json.Unmarshal of one token into an interface{}: a number becomes a
\* float64.
jsonUnmarshalValue(t) ==
    CASE t.tok = "string" -> GoString(t.text)
      [] t.tok = "number" -> GoFloat64(CHOOSE n \in JsonNumbers : ToString(n) = t.text)
      [] OTHER            -> GoNil

jsonUnmarshalData(text) == [i \in 1..Len(text) |-> jsonUnmarshalValue(text[i])]

\* padTo32Bytes(val.Bytes()): the 32-byte big-endian word of a number.
padTo32Bytes(n) == [word |-> n]

\* SolidityKeccak256([]string{"string", "uint256"}, {text, number}): the
\* bytes of the text followed by the word of the number, hashed.
SolidityKeccak256(text, n) == [keccak256 |-> << [utf8 |-> text], padTo32Bytes(n) >>]

\* fmt.Sprintf("%x", hash)
SprintfHex(hash) == [hex |-> hash]

calculateHash(data, timestamp) ==
    SprintfHex(SolidityKeccak256(jsonMarshalData(data), timestamp))

\* FloatToWei(price).String(): the price times 10^18 in decimal digits.
FloatToWei(price) == ToString(price) \o "000000000000000000"

\* The map fieldValues of BuildMessage.
fieldValues(price, timestamp) ==
    [ticker |-> GoString(BuilderTicker),
     price |-> GoString(FloatToWei(price)),
     destination_chain |-> GoInt(DestinationChain),
     timestamp |-> GoInt(timestamp)]

\* The slices BuildMessage fills and the request it returns; the clock was
\* read once, as timestamp.
BuiltRequest(structure, values, hashed, timestamp) ==
    LET data == [i \in 1..Len(structure) |->
                    IF structure[i].Name \in DOMAIN values
                    THEN values[structure[i].Name] ELSE GoNil]
    IN  [type |-> MsgTypeSignRequest,
         hash |-> calculateHash(data, hashed),
         data |-> data,
         data_structure |-> [i \in 1..Len(structure) |-> structure[i].SolidityType],
         data_structure_meta |-> [i \in 1..Len(structure) |-> structure[i].Name],
         data_structure_id |-> 0,
         timestamp |-> timestamp]

\* Variant: the clock is read again for the timestamp field of the request.
BuildMessageSecondClock(structure, price, timestamp) ==
    BuiltRequest(structure, fieldValues(price, timestamp), timestamp, timestamp + 1)

\* StockQuoteMessageBuilder.BuildMessage
BuildMessage(structure, price, timestamp) ==
    BuiltRequest(structure, fieldValues(price, timestamp), timestamp, timestamp)

\* One pass of Worker.Run up to the return of StoreData: the average price
\* is built into a request and PublishSignRequest stores it.
WorkerRunBuild(structure, price, t, perm, failAt) ==
    /\ running
    /\ wkPc = "idle"
    /\ Len(wkTopic) < MaxWorkerPublishes
    /\ Cardinality({k \in DOMAIN db : k[1] = dataPrefix}) < MaxBuilds
    /\ LET sr == BuildMessage(structure, price, t)
           st == StoreData(db, sr, perm, failAt)
       IN  /\ db' = st.db
           /\ wkPc' = afterStoreData(st.err)
           /\ wkReq' = sr
    /\ wkAttempt' = 0
    /\ UNCHANGED wkTopic
    /\ UNCHANGED <<running, now, ticks, trustedAddrs, pending, lastMessageTime, lastEvent>>
    /\ UNCHANGED <<loopVars, signerVars, queryVars, moreVars>>

NextBuild ==
    \/ \E structure \in Structures, price \in BuildPrices, t \in BuildTimes,
          perm \in Perms2, failAt \in SpecStoreDataFaults :
          WorkerRunBuild(structure, price, t, perm, failAt)
    \/ \E ok \in BOOLEAN : PublishSignRequestAttempt(ok)

SpecBuild == Init /\ [][NextBuild]_vars

----------------------------------------------------------------------------
(* A collection tick of Worker.Run with its price aggregation,             *)
(* specification SpecCollect *)

notAggVars == <<coreVars, loopVars, signerVars, workerVars, queryVars, lockVars, lateVars, subVars, cancelVars, peerVars, orderVars, mirrorVars>>

\* The number of collection ticks followed.
MaxCollections == 2

\* What a source does before the aggregator's deadline: FetchPrice returns
\* a price, returns an error, or has not returned.  With these prices the
\* mean of any subset is a whole number, as in the float division.
SourceOutcomes ==
    {[kind |-> "ok", price |-> 100], [kind |-> "ok", price |-> 102],
     [kind |-> "err", price |-> 0], [kind |-> "none", price |-> 0]}

\* The sources of the aggregator: CreatePriceSources returns two.
SourceCount == 2

\* The collecting loop of GetAveragePrice over the answers that arrive:
\* an error is logged, a price is added to total and counted.
RECURSIVE collect(_, _, _, _)
collect(answers, i, total, count) ==
    IF i > Len(answers) THEN [total |-> total, count |-> count]
    ELSE IF answers[i].kind = "ok"
         THEN collect(answers, i + 1, total + answers[i].price, count + 1)
         ELSE collect(answers, i + 1, total, count)

\* Variant: the loop stops waiting at the deadline and goes on with the
\* prices it has.
GetAveragePriceOfAnswers(outcomes) ==
    LET c == collect(outcomes, 1, 0, 0)
    IN  IF c.count = 0 THEN [err |-> "no valid prices received from any source", price |-> 0]
        ELSE [err |-> "nil", price |-> c.total \div c.count]

\* GetAveragePrice: the loop takes len(a.Sources) items from errChan,
\* resultChan or ctx.Done(); the deadline ends the call with an error as
\* soon as one source has not answered.  Then count == 0 is an error, and
\* otherwise the result is total / count.
GetAveragePrice(outcomes) ==
    LET answers == SelectSeq(outcomes, LAMBDA o : o.kind # "none")
        c == collect(answers, 1, 0, 0)
    IN  IF Len(answers) < Len(outcomes)
        THEN [err |-> "price aggregation timed out", price |-> 0]
        ELSE IF c.count = 0
        THEN [err |-> "no valid prices received from any source", price |-> 0]
        ELSE [err |-> "nil", price |-> c.total \div c.count]

\* One pass of Worker.Run on a tick, up to the return of StoreData: on an
\* error of GetAveragePrice the pass ends (continue); otherwise the price
\* is built into a request and PublishSignRequest stores it.
WorkerRunTick(outcomes, structure, t, perm, failAt) ==
    /\ running
    /\ wkPc = "idle"
    /\ aggTick.n < MaxCollections
    /\ Len(wkTopic) < MaxWorkerPublishes
    /\ LET r == GetAveragePrice(outcomes)
       IN  /\ aggTick' = [n |-> aggTick.n + 1, outcomes |-> outcomes, result |-> r]
           /\ IF r.err # "nil"
              THEN UNCHANGED <<db, wkPc, wkReq, wkAttempt>>
              ELSE LET sr == BuildMessage(structure, r.price, t)
                       st == StoreData(db, sr, perm, failAt)
                   IN  /\ db' = st.db
                       /\ wkPc' = afterStoreData(st.err)
                       /\ wkReq' = sr
                       /\ wkAttempt' = 0
    /\ UNCHANGED wkTopic
    /\ UNCHANGED <<running, now, ticks, trustedAddrs, pending, lastMessageTime, lastEvent>>
    /\ UNCHANGED <<loopVars, signerVars, queryVars>>
    /\ UNCHANGED <<lockVars, lateVars, subVars, cancelVars, peerVars, orderVars, mirrorVars>>

\* The publish attempts of the pass.
WorkerRunPublish(ok) ==
    /\ PublishSignRequestAttempt(ok)
    /\ UNCHANGED aggTick

NextCollect ==
    \/ \E outcomes \in [1..SourceCount -> SourceOutcomes], structure \in Structures,
          failAt \in SpecStoreDataFaults :
          WorkerRunTick(outcomes, structure, 1000 + aggTick.n, <<1, 2>>, failAt)
    \/ \E ok \in BOOLEAN : WorkerRunPublish(ok)

SpecCollect == Init /\ [][NextCollect]_vars

----------------------------------------------------------------------------
(* Concurrent calls of StoreSignature, specification SpecLock *)

\* The signers whose signatures a caller stores: the callers store for
\* distinct signers.
CallerSigners(p) == IF p = 1 THEN {"A"} ELSE {"B", "C"}
LockHashes == {"aa", "bb"}

\* Variant: the lock is granted while another caller holds it.
mutexFreeAlways(m) == TRUE

\* ldb.mu.Lock() returns when no caller holds the lock.
mutexFree(m) == m = {}

\* A goroutine calls StoreSignature(hash, signer, signature).
StoreSignatureEnter(p, h, k) ==
    /\ running
    /\ calls[p].pc = "idle"
    /\ calls[p].made < MaxStoreCalls
    /\ calls' = [calls EXCEPT ![p] = Call("lock", h, k, <<>>, @.made + 1, @.stored)]
    /\ UNCHANGED <<coreVars, loopVars, signerVars, workerVars, queryVars, mu>>
    /\ UNCHANGED <<lateVars, subVars, cancelVars, peerVars, orderVars, aggVars, mirrorVars>>

\* ldb.mu.Lock()
StoreSignatureLock(p) ==
    /\ running
    /\ calls[p].pc = "lock"
    /\ mutexFree(mu)
    /\ mu' = mu \cup {p}
    /\ calls' = [calls EXCEPT ![p].pc = "get"]
    /\ UNCHANGED <<coreVars, loopVars, signerVars, workerVars, queryVars>>
    /\ UNCHANGED <<lateVars, subVars, cancelVars, peerVars, orderVars, aggVars, mirrorVars>>

\* ldb.db.Get(sigKey) and json.Unmarshal: the map stored so far, or a new
\* one; on an error the call returns and the deferred Unlock runs.
StoreSignatureGet(p, fault) ==
    /\ running
    /\ calls[p].pc = "get"
    /\ IF fault
       THEN /\ calls' = [calls EXCEPT ![p].pc = "idle"]
            /\ mu' = mu \ {p}
       ELSE /\ calls' = [calls EXCEPT ![p].pc = "put",
                                      ![p].sigs = GetSignatures(db, calls[p].hash).sigs]
            /\ UNCHANGED mu
    /\ UNCHANGED <<coreVars, loopVars, signerVars, workerVars, queryVars>>
    /\ UNCHANGED <<lateVars, subVars, cancelVars, peerVars, orderVars, aggVars, mirrorVars>>

\* sigs[signer] = signature, json.Marshal, ldb.db.Put(sigKey, sigData); the
\* call returns and the deferred Unlock runs.
StoreSignaturePut(p, fault) ==
    /\ running
    /\ calls[p].pc = "put"
    /\ LET c == calls[p]
           sig == SigString("ok", c.signer, TextHash(hexDecodeString(c.hash).bytes), 1)
       IN  IF fault
           THEN /\ calls' = [calls EXCEPT ![p].pc = "idle"]
                /\ UNCHANGED db
           ELSE /\ db' = MapPut(db, sigKey(c.hash),
                                jsonMarshalMap(MapPut(c.sigs, Hex(c.signer), sig)))
                /\ calls' = [calls EXCEPT ![p].pc = "idle",
                                          ![p].stored = @ \cup {<<c.hash, c.signer>>}]
    /\ mu' = mu \ {p}
    /\ UNCHANGED <<running, now, ticks, trustedAddrs, pending, lastMessageTime, lastEvent>>
    /\ UNCHANGED <<loopVars, signerVars, workerVars, queryVars>>
    /\ UNCHANGED <<lateVars, subVars, cancelVars, peerVars, orderVars, aggVars, mirrorVars>>

NextLock ==
    \/ \E p \in Callers, h \in LockHashes : \E k \in CallerSigners(p) :
          StoreSignatureEnter(p, h, k)
    \/ \E p \in Callers : StoreSignatureLock(p)
    \/ \E p \in Callers, fault \in BOOLEAN : StoreSignatureGet(p, fault)
    \/ \E p \in Callers, fault \in BOOLEAN : StoreSignaturePut(p, fault)

SpecLock == Init /\ [][NextLock]_vars

----------------------------------------------------------------------------
(* The coordinator's subscription: listen, resubscribe and healthMonitor,  *)
(* specifications SpecResub (listen alone) and SpecSub (listen beside the  *)
(* health monitor).  The goroutines run one statement at a time; o.sub is  *)
(* a plain field that every one of them reads and writes without a lock.   *)

\* The process runs: no goroutine has panicked.
processUp == lsPc # "crashed"

notSubVars == <<coreVars, loopVars, signerVars, workerVars, queryVars, lockVars, lateVars, cancelVars, peerVars, orderVars, aggVars, mirrorVars>>

\* Variant: the wait keeps growing with the attempt.
sleepTimeUncapped(i) == reconnectTimeout * (i + 1)

\* sleepTime := reconnectTimeout * (i+1), at most 30 s.
sleepTime(i) ==
    IF reconnectTimeout * (i + 1) > maxSleepTime THEN maxSleepTime
    ELSE reconnectTimeout * (i + 1)

\* The statement after a call of resubscribe, in the task that made it:
\* listen sleeps 5 s after an error and goes round its loop; healthMonitor
\* clears its counter after a success and goes back to its select.
resubscribeReturns(c, err) ==
    IF c = "listen"
    THEN /\ lsPc' = IF err THEN "sleep" ELSE "select"
         /\ UNCHANGED <<hmPc, consecutiveTimeouts>>
    ELSE /\ hmPc' = "select"
         /\ consecutiveTimeouts' = IF err THEN consecutiveTimeouts ELSE 0
         /\ UNCHANGED lsPc

\* resubscribe: if o.sub != nil { o.sub.Cancel() }
ResubscribeCancel(c) ==
    /\ processUp
    /\ rs[c].pc = "cancel"
    /\ subCancelled' = IF sub # NilSub THEN subCancelled \cup {sub} ELSE subCancelled
    /\ rs' = [rs EXCEPT ![c] = ResubCall("subscribe", 0, 0, 0, FALSE, "none")]
    /\ UNCHANGED <<rootDone, sub, subNext, lsPc, lsSub, hmPc, consecutiveTimeouts>>
    /\ UNCHANGED notSubVars

\* resubscribe: o.sub, err = o.topic.Subscribe(); return nil on success,
\* otherwise compute sleepTime and enter the select.  A failed Subscribe
\* returns a nil subscription, which is what o.sub then holds.
ResubscribeSubscribe(c, ok) ==
    /\ processUp
    /\ rs[c].pc = "subscribe"
    /\ ok => subNext <= MaxSubscriptions
    /\ IF ok
       THEN /\ sub' = subNext
            /\ subNext' = subNext + 1
            /\ rs' = [rs EXCEPT ![c] = ResubCall("idle", rs[c].i, rs[c].tries + 1, 0, FALSE, "ok")]
            /\ resubscribeReturns(c, FALSE)
       ELSE /\ sub' = NilSub
            /\ UNCHANGED subNext
            /\ rs' = [rs EXCEPT ![c] = ResubCall("wait", rs[c].i, rs[c].tries + 1,
                                                   sleepTime(rs[c].i), FALSE, "none")]
            /\ UNCHANGED <<lsPc, hmPc, consecutiveTimeouts>>
    /\ UNCHANGED <<rootDone, subCancelled, lsSub>>
    /\ UNCHANGED notSubVars

\* The sleepTime of a waiting call has passed: time.After delivers.
ResubscribeTimerFires(c) ==
    /\ processUp
    /\ rs[c].pc = "wait"
    /\ ~rs[c].fired
    /\ rs' = [rs EXCEPT ![c].fired = TRUE]
    /\ UNCHANGED <<rootDone, sub, subCancelled, subNext, lsPc, lsSub, hmPc, consecutiveTimeouts>>
    /\ UNCHANGED notSubVars

\* resubscribe: select { case <-o.ctx.Done(): return error;
\* case <-time.After(sleepTime): next attempt }, and the return after the
\* last attempt.
ResubscribeSelect(c, branch) ==
    /\ processUp
    /\ rs[c].pc = "wait"
    /\ branch = "ctx" => rootDone
    /\ branch = "timer" => rs[c].fired
    /\ IF branch = "ctx"
       THEN /\ rs' = [rs EXCEPT ![c] = ResubCall("idle", rs[c].i, rs[c].tries, 0, FALSE, "ctx")]
            /\ resubscribeReturns(c, TRUE)
       ELSE IF rs[c].i + 1 < maxReconnectAttempts
       THEN /\ rs' = [rs EXCEPT ![c] = ResubCall("subscribe", rs[c].i + 1, rs[c].tries,
                                                   0, FALSE, "none")]
            /\ UNCHANGED <<lsPc, hmPc, consecutiveTimeouts>>
       ELSE /\ rs' = [rs EXCEPT ![c] = ResubCall("idle", rs[c].i + 1, rs[c].tries,
                                                   0, FALSE, "exhausted")]
            /\ resubscribeReturns(c, TRUE)
    /\ UNCHANGED <<rootDone, sub, subCancelled, subNext, lsSub>>
    /\ UNCHANGED notSubVars

\* listen, top of the loop: return when o.ctx is done, otherwise call
\* o.sub.Next(ctx).  Next on a nil subscription dereferences nil: the
\* goroutine panics and the process dies.
ListenSelect ==
    /\ lsPc = "select"
    /\ IF rootDone
       THEN lsPc' = "exited" /\ UNCHANGED lsSub
       ELSE IF sub = NilSub
       THEN lsPc' = "crashed" /\ UNCHANGED lsSub
       ELSE lsPc' = "next" /\ lsSub' = sub
    /\ UNCHANGED <<rootDone, sub, subCancelled, subNext, hmPc, consecutiveTimeouts, rs>>
    /\ UNCHANGED notSubVars

\* listen: o.sub.Next returns a message, which HandleMessage takes, or an
\* error (the read timeout, a cancelled subscription, a cancelled context):
\* then return if o.ctx is done, and call resubscribe otherwise.
ListenNextReturns(r) ==
    /\ processUp
    /\ lsPc = "next"
    /\ r = "message" => lsSub \notin subCancelled /\ ~rootDone
    /\ IF r = "message"
       THEN lsPc' = "select" /\ UNCHANGED rs
       ELSE IF rootDone
       THEN lsPc' = "exited" /\ UNCHANGED rs
       ELSE /\ lsPc' = "resubscribe"
            /\ rs' = [rs EXCEPT !["listen"] = ResubCall("cancel", 0, 0, 0, FALSE, "none")]
    /\ UNCHANGED <<rootDone, sub, subCancelled, subNext, lsSub, hmPc, consecutiveTimeouts>>
    /\ UNCHANGED notSubVars

\* listen: time.Sleep(5 * time.Second) is over; continue.
ListenWakes ==
    /\ processUp
    /\ lsPc = "sleep"
    /\ lsPc' = "select"
    /\ UNCHANGED <<rootDone, sub, subCancelled, subNext, lsSub, hmPc, consecutiveTimeouts, rs>>
    /\ UNCHANGED notSubVars

\* healthMonitor, case <-healthCheckTicker.C: what the tick does to the
\* counter, and whether it calls resubscribe.
healthTick(count, hasRecentMessage, peerCount) ==
    IF ~hasRecentMessage
    THEN IF peerCount = 0
         THEN IF count >= maxConsecutiveTimeouts
              THEN [count |-> count, reset |-> TRUE]
              ELSE [count |-> count + 1, reset |-> FALSE]
         ELSE [count |-> 0, reset |-> FALSE]
    ELSE [count |-> 0, reset |-> FALSE]

\* healthMonitor takes a tick of its 30 s ticker.
HealthTick(hasRecentMessage, peerCount) ==
    /\ processUp
    /\ hmPc = "select"
    /\ LET t == healthTick(consecutiveTimeouts, hasRecentMessage, peerCount)
       IN  /\ consecutiveTimeouts' = t.count
           /\ IF t.reset
              THEN /\ hmPc' = "resubscribe"
                   /\ rs' = [rs EXCEPT !["health"] = ResubCall("cancel", 0, 0, 0, FALSE, "none")]
              ELSE UNCHANGED <<hmPc, rs>>
    /\ UNCHANGED <<rootDone, sub, subCancelled, subNext, lsPc, lsSub>>
    /\ UNCHANGED notSubVars

\* healthMonitor, case <-o.ctx.Done(): return.
HealthExit ==
    /\ processUp
    /\ hmPc = "select"
    /\ rootDone
    /\ hmPc' = "exited"
    /\ UNCHANGED <<rootDone, sub, subCancelled, subNext, lsPc, lsSub, consecutiveTimeouts, rs>>
    /\ UNCHANGED notSubVars

\* gracefulShutdown: o.cancel(), then o.sub.Cancel() if o.sub != nil.
gracefulShutdown ==
    /\ processUp
    /\ ~rootDone
    /\ rootDone' = TRUE
    /\ subCancelled' = IF sub # NilSub THEN subCancelled \cup {sub} ELSE subCancelled
    /\ UNCHANGED <<sub, subNext, lsPc, lsSub, hmPc, consecutiveTimeouts, rs>>
    /\ UNCHANGED notSubVars

\* The steps of the resubscribe call of task c.
Resubscribe(c) ==
    \/ ResubscribeCancel(c)
    \/ \E ok \in BOOLEAN : ResubscribeSubscribe(c, ok)
    \/ ResubscribeTimerFires(c)
    \/ \E branch \in {"ctx", "timer"} : ResubscribeSelect(c, branch)

\* The steps of listen.
Listen ==
    \/ ListenSelect
    \/ \E r \in {"message", "error"} : ListenNextReturns(r)
    \/ ListenWakes

NextResub ==
    \/ Listen
    \/ Resubscribe("listen")
    \/ gracefulShutdown

SpecResub == Init /\ [][NextResub]_vars

\* The goroutine that called resubscribe is scheduled, and the time of its
\* wait passes.
SpecResubFair == SpecResub /\ WF_vars(Resubscribe("listen"))

PeerCounts == {0, 1}

NextSub ==
    \/ Listen
    \/ \E c \in Tasks : Resubscribe(c)
    \/ \E hasRecentMessage \in BOOLEAN, peerCount \in PeerCounts :
          HealthTick(hasRecentMessage, peerCount)
    \/ HealthExit
    \/ gracefulShutdown

SpecSub == Init /\ [][NextSub]_vars

----------------------------------------------------------------------------
(* Cancellation of the root context, specifications SpecCancel and         *)
(* SpecCancelFair.  The coordinator and the signer are separate processes  *)
(* with a root context each; a behaviour follows one of them.              *)

notCancelVars == <<coreVars, loopVars, signerVars, workerVars, queryVars, lockVars, lateVars, subVars, peerVars, orderVars, aggVars, mirrorVars>>

\* The signer process runs: its listen goroutine has not panicked.
nodeUp == bg["nodeListen"] # "crashed"

\* The process to follow is chosen.
Observe(p) ==
    /\ observed = "none"
    /\ observed' = p
    /\ UNCHANGED <<nodeDone, bg, sgSub, sgResubI>>
    /\ UNCHANGED notCancelVars

\* A step of coordinator goroutine t that moves it from one place to another.
BgStep(t, from, to) ==
    /\ processUp
    /\ observed = "coordinator"
    /\ bg[t] = from
    /\ bg' = [bg EXCEPT ![t] = to]
    /\ UNCHANGED <<observed, nodeDone, sgSub, sgResubI>>
    /\ UNCHANGED notCancelVars

\* retryPendingRequests: select { case <-o.ctx.Done(): return; case
\* <-ticker.C: rebroadcast; case <-tickerExpired.C: sweep }.  A rebroadcast
\* blocks in topic.Publish under a context derived from o.ctx, and returns
\* when the publish is done, at its timeout, or when o.ctx is cancelled.
RetryLoopStep ==
    \/ rootDone /\ BgStep("retry", "select", "exited")
    \/ BgStep("retry", "select", "publishing")
    \/ BgStep("retry", "publishing", "select")

\* peerDiscovery: select { case <-o.ctx.Done(): return; case <-ticker.C:
\* host.Connect to the peers of the peer store, each call with a 5 s
\* timeout under o.ctx }.
PeerDiscoveryStep ==
    \/ rootDone /\ BgStep("discovery", "select", "exited")
    \/ BgStep("discovery", "select", "connecting")
    \/ BgStep("discovery", "connecting", "select")

\* peerGarbageCollector: select { case <-o.ctx.Done(): return; case
\* <-ticker.C: drop the old entries of knownPeers }.
PeerGarbageCollectorStep ==
    rootDone /\ BgStep("gc", "select", "exited")

\* A step of the signer that sets where its goroutine t is, and its
\* subscription and loop variable.
NodeStep(t, from, to, s, i) ==
    /\ nodeUp
    /\ observed = "signer"
    /\ bg[t] = from
    /\ bg' = [bg EXCEPT ![t] = to]
    /\ sgSub' = s
    /\ sgResubI' = i
    /\ UNCHANGED <<observed, nodeDone>>
    /\ UNCHANGED notCancelVars

\* The signer's main cancels the root context.
NodeCancel ==
    /\ nodeUp
    /\ observed = "signer"
    /\ ~nodeDone
    /\ nodeDone' = TRUE
    /\ UNCHANGED <<observed, bg, sgSub, sgResubI>>
    /\ UNCHANGED notCancelVars

\* Node.listen, top of the loop: return when n.ctx is done, otherwise call
\* n.sub.Next(ctx); on a nil subscription the call panics.
NodeListenSelect ==
    IF nodeDone THEN NodeStep("nodeListen", "select", "exited", sgSub, sgResubI)
    ELSE IF sgSub THEN NodeStep("nodeListen", "select", "next", sgSub, sgResubI)
    ELSE NodeStep("nodeListen", "select", "crashed", sgSub, sgResubI)

\* Node.listen: n.sub.Next returns a message, which HandleMessage takes,
\* or an error: call resubscribe if n.ctx is alive, then continue.
\* resubscribe starts with n.sub.Cancel().
NodeNextReturns(r) ==
    IF r = "message"
    THEN ~nodeDone /\ NodeStep("nodeListen", "next", "select", sgSub, sgResubI)
    ELSE IF nodeDone THEN NodeStep("nodeListen", "next", "select", sgSub, sgResubI)
    ELSE NodeStep("nodeListen", "next", "subscribe", sgSub, 0)

\* Node.resubscribe: n.sub, err = n.topic.Subscribe(); return nil on
\* success, otherwise time.Sleep(reconnectTimeout).
NodeResubscribeSubscribe(ok) ==
    IF ok
    THEN NodeStep("nodeListen", "subscribe", "select", TRUE, sgResubI)
    ELSE NodeStep("nodeListen", "subscribe", "sleep", FALSE, sgResubI)

\* Node.resubscribe: the sleep is over; next attempt, or return the error
\* after the last one, and listen continues.
NodeResubscribeWakes ==
    IF sgResubI + 1 < nodeMaxReconnectAttempts
    THEN NodeStep("nodeListen", "sleep", "subscribe", sgSub, sgResubI + 1)
    ELSE NodeStep("nodeListen", "sleep", "select", sgSub, sgResubI + 1)

\* connectionMonitor: select { case <-n.ctx.Done(): return; case
\* <-ticker.C: call connectToBootstrap when a bootstrap address is set and
\* no peer is connected }.
ConnectionMonitorSelect(peers) ==
    \/ nodeDone /\ NodeStep("monitor", "select", "exited", sgSub, sgResubI)
    \/ peers = 0 /\ NodeStep("monitor", "select", "connect", sgSub, sgResubI)

\* Variant: the loop of connectToBootstrap returns when n.ctx is done.
connectFailedReturnsOnCancel(done) == IF done THEN "select" ELSE "sleep"

\* connectToBootstrap after a failed host.Connect: log and
\* time.Sleep(reconnectTimeout), whatever the state of n.ctx.
connectFailed(done) == "sleep"

\* connectToBootstrap: host.Connect under a 5 s timeout derived from n.ctx
\* returns; nil ends the loop, an error leads to the sleep.  With n.ctx
\* cancelled the call returns an error.
ConnectToBootstrapConnect(ok) ==
    /\ ok => ~nodeDone
    /\ NodeStep("monitor", "connect", IF ok THEN "select" ELSE connectFailed(nodeDone),
                sgSub, sgResubI)

\* connectToBootstrap: the sleep is over; the for loop goes round.
ConnectToBootstrapWakes == NodeStep("monitor", "sleep", "connect", sgSub, sgResubI)

\* The steps of the coordinator's goroutines.
CoordinatorSteps ==
    \/ Listen
    \/ Resubscribe("listen")
    \/ HealthExit
    \/ RetryLoopStep
    \/ PeerDiscoveryStep
    \/ PeerGarbageCollectorStep

\* The steps of the signer's listen goroutine.
NodeListen ==
    \/ NodeListenSelect
    \/ \E r \in {"message", "error"} : NodeNextReturns(r)
    \/ \E ok \in BOOLEAN : NodeResubscribeSubscribe(ok)
    \/ NodeResubscribeWakes

\* The steps of the signer's connectionMonitor goroutine.
ConnectionMonitor ==
    \/ \E peers \in PeerCounts : ConnectionMonitorSelect(peers)
    \/ \E ok \in BOOLEAN : ConnectToBootstrapConnect(ok)
    \/ ConnectToBootstrapWakes

NextCancel ==
    \/ \E p \in {"coordinator", "signer"} : Observe(p)
    \/ observed = "coordinator" /\ CoordinatorSteps
    \/ observed = "coordinator" /\ gracefulShutdown
    \/ NodeCancel
    \/ NodeListen
    \/ ConnectionMonitor

SpecCancel == Init /\ [][NextCancel]_vars

\* Every goroutine is scheduled, and its sleeps and timeouts pass.  A
\* select with several ready cases picks one at random, so the case of a
\* context that stays done is taken sooner or later: strong fairness.
CancelFairness ==
    /\ WF_vars(observed = "coordinator" /\ (Listen \/ Resubscribe("listen")))
    /\ WF_vars(observed = "coordinator" /\ HealthExit)
    /\ SF_vars(rootDone /\ BgStep("retry", "select", "exited"))
    /\ WF_vars(BgStep("retry", "publishing", "select"))
    /\ SF_vars(rootDone /\ BgStep("discovery", "select", "exited"))
    /\ WF_vars(BgStep("discovery", "connecting", "select"))
    /\ WF_vars(PeerGarbageCollectorStep)
    /\ WF_vars(NodeListen)
    /\ SF_vars(nodeDone /\ NodeStep("monitor", "select", "exited", sgSub, sgResubI))
    /\ WF_vars(\E ok \in BOOLEAN : ConnectToBootstrapConnect(ok))
    /\ WF_vars(ConnectToBootstrapWakes)

SpecCancelFair == SpecCancel /\ CancelFairness

----------------------------------------------------------------------------
(* The peer supervisor of the coordinator: the network notifiers,          *)
(* peerDiscovery and peerGarbageCollector.  Specification SpecPeers.       *)

notPeerVars == <<coreVars, loopVars, signerVars, workerVars, queryVars, lockVars, lateVars, subVars, cancelVars, orderVars, aggVars, mirrorVars>>

\* The other peers of the network.
Peers == {"p1", "p2"}

\* The number of peerDiscovery ticks followed.
MaxPeerTicks == 10

\* ConnectedF for each peer of ps at time t: knownPeers[peerID] = t.
ConnectedF(known, ps, t) ==
    [p \in DOMAIN known \cup ps |-> IF p \in ps THEN t ELSE known[p]]

\* A connection to peer p is established, dialled by either side; the
\* notifier runs, and the host's peer store has the peer's address.
PeerConnects(p) ==
    /\ p \notin connected
    /\ connected' = connected \cup {p}
    /\ knownPeers' = ConnectedF(knownPeers, {p}, peerNow)
    /\ peerstore' = peerstore \cup {p}
    /\ UNCHANGED <<peerNow, peerDue, tried>>
    /\ UNCHANGED notPeerVars

\* The last connection to peer p is closed.  DisconnectedF logs, and
\* leaves knownPeers alone.
PeerDisconnects(p) ==
    /\ p \in connected
    /\ connected' = connected \ {p}
    /\ UNCHANGED <<knownPeers, peerstore, peerNow, peerDue, tried>>
    /\ UNCHANGED notPeerVars

\* 60 s pass: the ticker of peerDiscovery fires, and every 5 min the
\* ticker of peerGarbageCollector.
PeerClock ==
    /\ peerDue = {}
    /\ peerNow < MaxPeerTicks * peerDiscoveryInterval
    /\ peerNow' = peerNow + peerDiscoveryInterval
    /\ peerDue' = {"discovery"} \cup
                  (IF peerNow' % peerGarbageCollectorTime = 0 THEN {"gc"} ELSE {})
    /\ UNCHANGED <<connected, knownPeers, peerstore, tried>>
    /\ UNCHANGED notPeerVars

\* Variant: the tick counts the peers the host is connected to.
peersToTryByConnection(known, conn, store) ==
    IF conn = {} THEN store \ conn ELSE {}

\* peerDiscovery, on a tick: peerCount := len(o.knownPeers); if it is 0,
\* every peer of the peer store that is not this host, is not connected
\* and has an address is dialled.
peersToTry(known, conn, store) ==
    IF DOMAIN known = {} THEN store \ conn ELSE {}

\* One tick of peerDiscovery; the dials that succeed (ok) run ConnectedF.
PeerDiscoveryTick(ok) ==
    /\ "discovery" \in peerDue
    /\ peerDue' = peerDue \ {"discovery"}
    /\ tried' = peersToTry(knownPeers, connected, peerstore)
    /\ ok \subseteq tried'
    /\ connected' = connected \cup ok
    /\ knownPeers' = ConnectedF(knownPeers, ok, peerNow)
    /\ UNCHANGED <<peerstore, peerNow>>
    /\ UNCHANGED notPeerVars

\* One tick of peerGarbageCollector: delete the entries of knownPeers
\* last seen more than 5 min ago.
PeerGarbageCollectorTick ==
    /\ "gc" \in peerDue
    /\ peerDue' = peerDue \ {"gc"}
    /\ knownPeers' = [p \in {q \in DOMAIN knownPeers :
                                ~(peerNow - knownPeers[q] > peerGarbageCollectorTime)}
                        |-> knownPeers[p]]
    /\ UNCHANGED <<connected, peerstore, peerNow, tried>>
    /\ UNCHANGED notPeerVars

NextPeers ==
    \/ \E p \in Peers : PeerConnects(p)
    \/ \E p \in Peers : PeerDisconnects(p)
    \/ PeerClock
    \/ \E ok \in SUBSET Peers : PeerDiscoveryTick(ok)
    \/ PeerGarbageCollectorTick

SpecPeers == Init /\ [][NextPeers]_vars

----------------------------------------------------------------------------
(* The locks of the coordinator process, specifications SpecOrder (every   *)
(* goroutine), SpecStoreLock and SpecStoreLockFair (the goroutines that    *)
(* use the store).  An operation is the sequence of its lock calls.  A     *)
(* sync.RWMutex grants Lock when no goroutine holds it, and from the       *)
(* moment a Lock call has announced itself it grants no RLock until that   *)
(* writer has unlocked; Unlock hands the lock to the readers blocked then. *)

notOrderVars == <<coreVars, loopVars, signerVars, workerVars, queryVars, lockVars, lateVars, subVars, cancelVars, peerVars, aggVars, mirrorVars>>

\* Variant: HandleMessage releases o.knownPeersMux by a deferred Unlock.
handleMessageDeferred(handler) ==
    <<<<"Lock", "knownPeersMux">>>> \o handler \o <<<<"Unlock", "knownPeersMux">>>>

\* HandleMessage: lastMessageTime is set under o.knownPeersMux, which is
\* released before the handler of the message type is called.
handleMessage(handler) ==
    <<<<"Lock", "knownPeersMux">>, <<"Unlock", "knownPeersMux">>>> \o handler

\* The lock calls of each operation, in program order.
Program(prog) ==
    CASE prog = "handleSignRequest" ->
           handleMessage(<<<<"Lock", "pendingMux">>, <<"Unlock", "pendingMux">>>>)
      [] prog = "handleSignResponse" ->
           handleMessage(<<<<"Lock", "pendingMux">>, <<"Lock", "mu">>,
                           <<"Unlock", "mu">>, <<"Unlock", "pendingMux">>>>)
      [] prog = "retryTick" -> <<<<"RLock", "pendingMux">>, <<"RUnlock", "pendingMux">>>>
      [] prog = "cleanupExpiredRequests" ->
           <<<<"Lock", "pendingMux">>, <<"Unlock", "pendingMux">>>>
      [] prog = "peerDiscovery" ->
           <<<<"RLock", "knownPeersMux">>, <<"RUnlock", "knownPeersMux">>>>
      [] prog = "peerGarbageCollector" ->
           <<<<"Lock", "knownPeersMux">>, <<"Unlock", "knownPeersMux">>>>
      [] prog = "healthMonitor" ->
           <<<<"RLock", "knownPeersMux">>, <<"RUnlock", "knownPeersMux">>,
             <<"RLock", "knownPeersMux">>, <<"RUnlock", "knownPeersMux">>>>
      [] prog = "StoreData" -> <<<<"Lock", "mu">>, <<"Unlock", "mu">>>>
      [] prog = "GetData" ->
           <<<<"RLock", "mu">>, <<"RLock", "mu">>, <<"RUnlock", "mu">>, <<"RUnlock", "mu">>>>
      [] prog = "GetSignatures" -> <<<<"RLock", "mu">>, <<"RUnlock", "mu">>>>

\* The operations each goroutine runs.
Programs(t) ==
    CASE t = "listen" -> {"handleSignRequest", "handleSignResponse"}
      [] t = "retry" -> {"retryTick", "cleanupExpiredRequests"}
      [] t = "discovery" -> {"peerDiscovery"}
      [] t = "gc" -> {"peerGarbageCollector"}
      [] t = "health" -> {"healthMonitor"}
      [] t = "worker" -> {"StoreData"}
      [] t = "rpc" -> {"GetData", "GetSignatures"}

\* The lock call goroutine t is at; <<"none", "none">> when it runs nothing.
LkOp(t) ==
    IF lkPc[t].prog = "idle" THEN <<"none", "none">>
    ELSE Program(lkPc[t].prog)[lkPc[t].at]

\* The locks goroutine t holds.
LkHolds(t) == {lkHeld[t][i][2] : i \in DOMAIN lkHeld[t]}

\* The goroutines of ts that hold lock l.
LkHolders(ts, l) == {t \in ts : l \in LkHolds(t)}

\* Goroutine t after the lock call it is at: the next call, or the end of
\* the operation.
LkAdvance(t) ==
    IF lkPc[t].at = Len(Program(lkPc[t].prog)) THEN LkIdle
    ELSE [lkPc[t] EXCEPT !.at = @ + 1]

\* Goroutine t starts operation prog.
LkStart(t, prog) ==
    /\ lkPc[t] = LkIdle
    /\ prog \in Programs(t)
    /\ lkPc' = [lkPc EXCEPT ![t] = [prog |-> prog, at |-> 1]]
    /\ UNCHANGED <<lkHeld, lkW>>
    /\ UNCHANGED notOrderVars

\* Lock(), first half: the writer takes the lock's inner mutex and
\* announces itself; RLock calls made from now on block.
LkAnnounce(t) ==
    /\ LkOp(t)[1] = "Lock"
    /\ lkW[LkOp(t)[2]] = "none"
    /\ lkW' = [lkW EXCEPT ![LkOp(t)[2]] = t]
    /\ UNCHANGED <<lkPc, lkHeld>>
    /\ UNCHANGED notOrderVars

\* Lock(), second half: the announced writer has the lock once no
\* goroutine holds it.
LkLock(ts, t) ==
    /\ LkOp(t)[1] = "Lock"
    /\ lkW[LkOp(t)[2]] = t
    /\ LkHolders(ts, LkOp(t)[2]) = {}
    /\ lkHeld' = [lkHeld EXCEPT ![t] = Append(@, <<"w", LkOp(t)[2]>>)]
    /\ lkPc' = [lkPc EXCEPT ![t] = LkAdvance(t)]
    /\ UNCHANGED lkW
    /\ UNCHANGED notOrderVars

\* RLock(): granted when no writer has announced itself or holds the lock.
LkRLock(t) ==
    /\ LkOp(t)[1] = "RLock"
    /\ lkW[LkOp(t)[2]] = "none"
    /\ lkHeld' = [lkHeld EXCEPT ![t] = Append(@, <<"r", LkOp(t)[2]>>)]
    /\ lkPc' = [lkPc EXCEPT ![t] = LkAdvance(t)]
    /\ UNCHANGED lkW
    /\ UNCHANGED notOrderVars

\* RUnlock(): the goroutine gives up its latest read hold.
LkRUnlock(t) ==
    /\ LkOp(t)[1] = "RUnlock"
    /\ lkHeld' = [lkHeld EXCEPT ![t] = SubSeq(@, 1, Len(@) - 1)]
    /\ lkPc' = [lkPc EXCEPT ![t] = LkAdvance(t)]
    /\ UNCHANGED lkW
    /\ UNCHANGED notOrderVars

\* Unlock(): the writer leaves, and the readers blocked in RLock are let in.
LkUnlock(ts, t) ==
    /\ LkOp(t)[1] = "Unlock"
    /\ LET l == LkOp(t)[2]
           readers == {u \in ts \ {t} : LkOp(u) = <<"RLock", l>>}
       IN  /\ lkW' = [lkW EXCEPT ![l] = "none"]
           /\ lkHeld' = [u \in LockTasks |->
                  IF u = t THEN SelectSeq(lkHeld[t], LAMBDA h : h[2] # l)
                  ELSE IF u \in readers THEN Append(lkHeld[u], <<"r", l>>)
                  ELSE lkHeld[u]]
           /\ lkPc' = [u \in LockTasks |->
                  IF u = t \/ u \in readers THEN LkAdvance(u) ELSE lkPc[u]]
    /\ UNCHANGED notOrderVars

\* The steps of goroutine t inside an operation.
LkStep(ts, t) ==
    \/ LkAnnounce(t)
    \/ LkLock(ts, t)
    \/ LkRLock(t)
    \/ LkRUnlock(t)
    \/ LkUnlock(ts, t)

NextOrder ==
    \/ \E t \in LockTasks : \E prog \in Programs(t) : LkStart(t, prog)
    \/ \E t \in LockTasks : LkStep(LockTasks, t)

SpecOrder == Init /\ [][NextOrder]_vars

NextStoreLock ==
    \/ \E t \in StoreTasks : \E prog \in Programs(t) : LkStart(t, prog)
    \/ \E t \in StoreTasks : LkStep(StoreTasks, t)

SpecStoreLock == Init /\ [][NextStoreLock]_vars

\* Every goroutine is scheduled; the inner mutex of a lock is fair among
\* the writers that wait for it.
StoreLockFairness ==
    \A t \in StoreTasks :
        /\ WF_vars(LkStep(StoreTasks, t))
        /\ SF_vars(LkAnnounce(t))

SpecStoreLockFair == SpecStoreLock /\ StoreLockFairness

----------------------------------------------------------------------------
(* Queries of the store (LevelDBDatabase, RPCServer), specification        *)
(* SpecStore.  LevelDB keeps its keys in the order of bytes.Compare, and   *)
(* an iterator over util.BytesPrefix(p) walks the keys that start with p   *)
(* in that order.                                                          *)

\* The bytes of the strings that occur in keys.
Ascii(s) ==
    CASE s = "index:"  -> <<105, 110, 100, 101, 120, 58>>
      [] s = "sig:"    -> <<115, 105, 103, 58>>
      [] s = "data:"   -> <<100, 97, 116, 97, 58>>
      [] s = "ds:"     -> <<100, 115, 58>>
      [] s = "price"   -> <<112, 114, 105, 99, 101>>
      [] s = "ticker"  -> <<116, 105, 99, 107, 101, 114>>
      [] s = "SBER"    -> <<83, 66, 69, 82>>
      [] s = "0"       -> <<48>>
      [] s = "1"       -> <<49>>
      [] s = "100"     -> <<49, 48, 48>>
      [] s = "101"     -> <<49, 48, 49>>
      [] s = "1000"    -> <<49, 48, 48, 48>>
      [] s = "1001"    -> <<49, 48, 48, 49>>
      [] s = "1003"    -> <<49, 48, 48, 51>>
      [] s = "aa"      -> <<97, 97>>
      [] s = "bb"      -> <<98, 98>>
      [] s = "cc"      -> <<99, 99>>
      [] s = "zz"      -> <<122, 122>>
      [] OTHER         -> <<>>

Colon == <<58>>

\* The bytes of a key: the prefix, then the segments joined by colons.
RECURSIVE JoinSegments(_)
JoinSegments(segs) ==
    IF segs = <<>> THEN <<>>
    ELSE IF Len(segs) = 1 THEN Ascii(segs[1])
    ELSE Ascii(segs[1]) \o Colon \o JoinSegments(Tail(segs))

KeyBytes(key) == Ascii(key[1]) \o JoinSegments(Tail(key))

\* bytes.Compare(a, b) < 0, the bytes before position i being equal
RECURSIVE ByteLessFrom(_, _, _)
ByteLessFrom(a, b, i) ==
    IF i > Len(b) THEN FALSE
    ELSE IF i > Len(a) THEN TRUE
    ELSE IF a[i] # b[i] THEN a[i] < b[i]
    ELSE ByteLessFrom(a, b, i + 1)

ByteLess(a, b) == ByteLessFrom(a, b, 1)

HasPrefix(b, p) == Len(b) >= Len(p) /\ SubSeq(b, 1, Len(p)) = p

\* The keys of a set of <<key, bytes>> pairs that share their first `from`
\* bytes, in ascending order of the bytes: the place of a key is the number
\* of keys below it.
SortEntries(range, from) ==
    CHOOSE keys \in
        { [i \in 1..Cardinality(range) |-> (CHOOSE e \in range : below[e] = i - 1)[1]] :
            below \in { [e \in range |->
                           Cardinality({y \in range : ByteLessFrom(y[2], e[2], from + 1)})] } } :
        TRUE

\* db.NewIterator(util.BytesPrefix(prefix), nil): the keys of the range, in
\* ascending order.
NewIterator(kv, prefix) ==
    CHOOSE keys \in
        { SortEntries(range, Len(prefix)) :
            range \in { {e \in {<<k, KeyBytes(k)>> : k \in DOMAIN kv} :
                            HasPrefix(e[2], prefix)} } } :
        TRUE

\* fmt.Sprintf("%s%d:", indexPrefix, dataStructureID)
dsPrefix(id) == Ascii(indexPrefix) \o Ascii(ToString(id)) \o Colon

\* fmt.Sprintf("%s%d:%s:%v:", indexPrefix, dataStructureID, field, value)
fieldPrefix(id, field, value) ==
    dsPrefix(id) \o Ascii(field) \o Colon \o Ascii(value) \o Colon

\* strings.Split(key, ":"): the name of the prefix and the segments.
stringsSplit(key) ==
    <<SubSeq(Ascii(key[1]), 1, Len(Ascii(key[1])) - 1)>> \o Tail(key)

\* The Message a query returns: the stored record and its signature map
\* (an empty map when none was joined).
WithSignatures(rec, sigs) ==
    [hash |-> rec.hash, data |-> rec.data, data_structure |-> rec.data_structure,
     data_structure_meta |-> rec.data_structure_meta, timestamp |-> rec.timestamp,
     signatures |-> sigs]

\* Message{}
MessageZero ==
    [hash |-> "", data |-> <<>>, data_structure |-> <<>>, data_structure_meta |-> <<>>,
     timestamp |-> 0, signatures |-> EmptyMap]

\* The loop of getLatestConfirmedMessage from position i downwards.
RECURSIVE scanConfirmed(_, _, _, _)
scanConfirmed(kv, keys, i, thr) ==
    IF i < 1 THEN [msg |-> MessageZero, found |-> FALSE]
    ELSE
    LET parts == stringsSplit(keys[i])
    IN  IF Len(parts) < 4 THEN scanConfirmed(kv, keys, i - 1, thr)
        ELSE IF dataKey(parts[4]) \notin DOMAIN kv
        THEN scanConfirmed(kv, keys, i - 1, thr)
        ELSE
        LET rec == kv[dataKey(parts[4])]
            g == GetSignatures(kv, rec.hash)
        IN  IF g.exists /\ Cardinality(DOMAIN g.sigs) >= thr
            THEN [msg |-> WithSignatures(rec, g.sigs), found |-> TRUE]
            ELSE scanConfirmed(kv, keys, i - 1, thr)

\* Variant: the range is walked from its first key upwards.
getLatestConfirmedMessageAscending(kv, id, thr) ==
    CHOOSE r \in
        { scanConfirmed(kv, [i \in 1..Len(keys) |-> keys[Len(keys) + 1 - i]], Len(keys), thr) :
            keys \in {NewIterator(kv, dsPrefix(id))} } :
        TRUE

\* RPCServer.getLatestConfirmedMessage: iter.Last(), then iter.Prev().
getLatestConfirmedMessage(kv, id, thr) ==
    CHOOSE r \in
        { scanConfirmed(kv, keys, Len(keys), thr) :
            keys \in {NewIterator(kv, dsPrefix(id))} } :
        TRUE

\* The loop of GetAllMessages from position i downwards.
RECURSIVE scanAll(_, _, _, _, _, _)
scanAll(kv, keys, i, skip, limit, messages) ==
    IF i < 1 THEN messages
    ELSE
    LET parts == stringsSplit(keys[i])
    IN  IF Len(parts) < 4 THEN scanAll(kv, keys, i - 1, skip, limit, messages)
        ELSE IF dataKey(parts[4]) \notin DOMAIN kv
        THEN scanAll(kv, keys, i - 1, skip, limit, messages)
        ELSE IF skip > 0 THEN scanAll(kv, keys, i - 1, skip - 1, limit, messages)
        ELSE
        LET rec == kv[dataKey(parts[4])]
            g == GetSignatures(kv, rec.hash)
            more == Append(messages, WithSignatures(rec, g.sigs))
        IN  IF Len(more) >= limit THEN more
            ELSE scanAll(kv, keys, i - 1, skip, limit, more)

\* Variant: page*limit entries are skipped.
GetAllMessagesSkipPage(kv, id, page, limit) ==
    CHOOSE r \in
        { scanAll(kv, keys, Len(keys), page * limit, limit, <<>>) :
            keys \in {NewIterator(kv, dsPrefix(id))} } :
        TRUE

\* LevelDBDatabase.GetAllMessages
GetAllMessages(kv, id, page, limit) ==
    CHOOSE r \in
        { scanAll(kv, keys, Len(keys), (page - 1) * limit, limit, <<>>) :
            keys \in {NewIterator(kv, dsPrefix(id))} } :
        TRUE

\* GetLatestMessage after iter.Last(): keys is the range of the iterator.
GetLatestMessageAt(kv, keys) ==
    IF keys = <<>> THEN [msg |-> MessageZero, exists |-> FALSE, err |-> "not_found"]
        ELSE
        LET parts == stringsSplit(keys[Len(keys)])
        IN  IF Len(parts) < 4
            THEN [msg |-> MessageZero, exists |-> FALSE, err |-> "invalid_key"]
            ELSE IF dataKey(parts[4]) \notin DOMAIN kv
            THEN [msg |-> MessageZero, exists |-> FALSE, err |-> "not_found"]
            ELSE
            LET rec == kv[dataKey(parts[4])]
                g == GetSignatures(kv, rec.hash)
            IN  [msg |-> WithSignatures(rec, g.sigs), exists |-> g.exists, err |-> "nil"]

\* LevelDBDatabase.GetLatestMessage
GetLatestMessage(kv, id) ==
    CHOOSE r \in { GetLatestMessageAt(kv, keys) : keys \in {NewIterator(kv, dsPrefix(id))} } :
        TRUE

\* key[len(prefix):] of a key of the field range: the hash it ends with.
messageID(key) == key[Len(key)]

\* Variant: a confirmed record never replaces the one already held.
replacesLatestNever(found, ts, latestTs) == ~found

\* GetLatestByField, the test under which a confirmed record becomes the
\* latest one.
replacesLatest(found, ts, latestTs) == ~found \/ ts > latestTs

\* The loop of GetLatestByField from position i upwards.
RECURSIVE scanByField(_, _, _, _, _)
scanByField(kv, keys, i, thr, held) ==
    IF i > Len(keys) THEN held
    ELSE IF dataKey(messageID(keys[i])) \notin DOMAIN kv
    THEN scanByField(kv, keys, i + 1, thr, held)
    ELSE
    LET rec == kv[dataKey(messageID(keys[i]))]
        g == GetSignatures(kv, rec.hash)
    IN  IF /\ g.exists
           /\ Cardinality(DOMAIN g.sigs) >= thr
           /\ replacesLatest(held.found, rec.timestamp, held.msg.timestamp)
        THEN scanByField(kv, keys, i + 1, thr,
                         [msg |-> WithSignatures(rec, g.sigs), found |-> TRUE])
        ELSE scanByField(kv, keys, i + 1, thr, held)

\* LevelDBDatabase.GetLatestByField
GetLatestByField(kv, id, thr, field, value) ==
    CHOOSE r \in
        { scanByField(kv, keys, 1, thr, [msg |-> MessageZero, found |-> FALSE]) :
            keys \in {NewIterator(kv, fieldPrefix(id, field, value))} } :
        TRUE

\* The loop of GetMessagesByField from position i upwards.
RECURSIVE scanMessagesByField(_, _, _, _, _, _, _)
scanMessagesByField(kv, keys, i, skipped, toSkip, limit, messages) ==
    IF i > Len(keys) THEN messages
    ELSE IF dataKey(messageID(keys[i])) \notin DOMAIN kv
    THEN scanMessagesByField(kv, keys, i + 1, skipped, toSkip, limit, messages)
    ELSE IF skipped < toSkip
    THEN scanMessagesByField(kv, keys, i + 1, skipped + 1, toSkip, limit, messages)
    ELSE
    LET rec == kv[dataKey(messageID(keys[i]))]
        g == GetSignatures(kv, rec.hash)
        more == Append(messages, WithSignatures(rec, g.sigs))
    IN  IF Len(more) >= limit THEN more
        ELSE scanMessagesByField(kv, keys, i + 1, skipped, toSkip, limit, more)

\* sort.Slice(messages, func(i, j) { messages[i].Timestamp > messages[j].Timestamp }):
\* the message is put before the first one with a smaller timestamp.
RECURSIVE insertByTimestamp(_, _)
insertByTimestamp(m, sorted) ==
    IF sorted = <<>> THEN <<m>>
    ELSE IF m.timestamp > Head(sorted).timestamp THEN <<m>> \o sorted
    ELSE <<Head(sorted)>> \o insertByTimestamp(m, Tail(sorted))

RECURSIVE sortSlice(_)
sortSlice(messages) ==
    IF messages = <<>> THEN <<>>
    ELSE insertByTimestamp(Head(messages), sortSlice(Tail(messages)))

\* Variant: the entries of the pages before the previous one are skipped.
GetMessagesByFieldSkipBefore(kv, id, field, value, page, limit) ==
    CHOOSE r \in
        { sortSlice(scanMessagesByField(kv, keys, 1, 0, (page - 1) * limit, limit, <<>>)) :
            keys \in {NewIterator(kv, fieldPrefix(id, field, value))} } :
        TRUE

\* LevelDBDatabase.GetMessagesByField
GetMessagesByField(kv, id, field, value, page, limit) ==
    CHOOSE r \in
        { sortSlice(scanMessagesByField(kv, keys, 1, 0, page * limit, limit, <<>>)) :
            keys \in {NewIterator(kv, fieldPrefix(id, field, value))} } :
        TRUE

\* The records the worker stores, the signers whose responses are stored,
\* and the arguments of the queries.
StoreHashes == {"aa", "bb", "cc"}
StoreSigners == {"A", "B"}
QueryIds == {0, 1}
QueryFields == { <<"ticker", "SBER">>, <<"price", "100">>, <<"price", "101">> }
QueryThresholds == 1..threshold(TrustedConfig)
QueryPages == 0..MaxPage
QueryLimits == 1..MaxLimit

\* PublishSignRequest stores the record of a new request.
StoreDataCall(h, perm) ==
    /\ running
    /\ db' = StoreData(db, FullSignRequest(h), perm, 0).db
    /\ answer' = NoAnswer
    /\ UNCHANGED <<running, now, ticks, trustedAddrs, pending, lastMessageTime, lastEvent>>
    /\ UNCHANGED <<loopVars, signerVars, workerVars, moreVars>>

\* handleSignResponse stores the signature of a trusted signer for a
\* request this coordinator published.
StoreSignatureCall(h, k) ==
    /\ running
    /\ dataKey(h) \in DOMAIN db
    /\ LET sig == SigString("ok", k, TextHash(hexDecodeString(h).bytes), 1)
       IN  db' = StoreSignature(db, h, Hex(k), sig, "none").db
    /\ answer' = NoAnswer
    /\ UNCHANGED <<running, now, ticks, trustedAddrs, pending, lastMessageTime, lastEvent>>
    /\ UNCHANGED <<loopVars, signerVars, workerVars, moreVars>>

\* GET /data/{dsid}/latest without a field filter
handleLatest(id) ==
    /\ running
    /\ LET thr == threshold(trustedAddrs)
       IN  answer' = Answer("latest", id, thr, "", "", 0, 0,
                            getLatestConfirmedMessage(db, id, thr))
    /\ UNCHANGED <<coreVars, loopVars, signerVars, workerVars, moreVars>>

QueryLatestByField(id, thr, fv) ==
    /\ running
    /\ answer' = Answer("latest_by_field", id, thr, fv[1], fv[2], 0, 0,
                        GetLatestByField(db, id, thr, fv[1], fv[2]))
    /\ UNCHANGED <<coreVars, loopVars, signerVars, workerVars, moreVars>>

QueryLatestMessage(id) ==
    /\ running
    /\ answer' = Answer("latest_message", id, 0, "", "", 0, 0, GetLatestMessage(db, id))
    /\ UNCHANGED <<coreVars, loopVars, signerVars, workerVars, moreVars>>

QueryAllMessages(id, page, limit) ==
    /\ running
    /\ answer' = Answer("all", id, 0, "", "", page, limit,
                        GetAllMessages(db, id, page, limit))
    /\ UNCHANGED <<coreVars, loopVars, signerVars, workerVars, moreVars>>

\* GET /data/{dsid}/list with a field filter
handleFilteredList(id, fv, page, limit) ==
    /\ running
    /\ answer' = Answer("by_field", id, 0, fv[1], fv[2], page, limit,
                        GetMessagesByField(db, id, fv[1], fv[2], page, limit))
    /\ UNCHANGED <<coreVars, loopVars, signerVars, workerVars, moreVars>>

NextStore ==
    \/ \E h \in StoreHashes, perm \in Perms2 : StoreDataCall(h, perm)
    \/ \E h \in StoreHashes, k \in StoreSigners : StoreSignatureCall(h, k)
    \/ \E id \in QueryIds : handleLatest(id)
    \/ \E id \in QueryIds, thr \in QueryThresholds, fv \in QueryFields :
          QueryLatestByField(id, thr, fv)
    \/ \E id \in QueryIds : QueryLatestMessage(id)
    \/ \E id \in QueryIds, page \in QueryPages, limit \in QueryLimits :
          QueryAllMessages(id, page, limit)

SpecStore == Init /\ [][NextStore]_vars

\* The store under the filtered list query, specification SpecList.
NextList ==
    \/ \E h \in StoreHashes, perm \in Perms2 : StoreDataCall(h, perm)
    \/ \E h \in StoreHashes, k \in StoreSigners : StoreSignatureCall(h, k)
    \/ \E id \in QueryIds, fv \in QueryFields, page \in QueryPages, limit \in QueryLimits :
          handleFilteredList(id, fv, page, limit)

SpecList == Init /\ [][NextList]_vars

----------------------------------------------------------------------------
(* What the properties speak about *)

\* The signature map stored for a hash in a store content.
SigsIn(kv, h) == GetSignatures(kv, h).sigs

\* A response whose hash is hexadecimal and whose signature is 65 bytes
\* from which a key can be recovered.
WellFormed(resp) == ~hexDecodeString(resp.hash).err /\ resp.signature.fmt = "ok"

\* The key whose address the signature recovers to over the text hash of
\* the hash it is stored or sent with.
RecoveredKey(h, sig) ==
    IF sig.digest = TextHash(hexDecodeString(h).bytes) THEN sig.key ELSE Stray

\* The key's address is in the trusted list, letter case ignored.
KeyTrusted(k) ==
    \E i \in 1..Len(trustedAddrs) : trustedAddrs[i].id = k /\ trustedAddrs[i].pfx

TrustedKeys == {k \in Keys : KeyTrusted(k)}

ResponseMessages ==
    {m \in InboundMessages : m.json = "ok" /\ m.body.type = MsgTypeSignResponse}

\* The well-formed responses among them.
WellFormedResponses == {m \in ResponseMessages : WellFormed(m.body)}

\* The signature of a well-formed response recovers to a trusted address.
TrustedSigner(m) == KeyTrusted(RecoveredKey(m.body.hash, m.body.signature))

Quorum == (Cardinality(TrustedKeys) \div 2) + 1

----------------------------------------------------------------------------
(* Properties of the coordinator, specification Spec *)

\* C1: handling a sign_response whose signature recovers to an address
\* outside the trusted list changes neither the pending table nor the store,
\* whether or not the hash is pending.
C1_UntrustedRejection ==
    [][\A m \in WellFormedResponses, f \in StoreSignatureFaults :
          (~TrustedSigner(m) /\ HandleMessage(m, f))
              => (pending' = pending /\ db' = db)]_vars

\* An untrusted response was just handled while the hash was pending with a
\* signer already counted.
C1_Witness ==
    /\ lastEvent.kind = "untrusted"
    /\ "aa" \in DOMAIN pending
    /\ pending["aa"].signers # {}

\* C2: every stored signature of a hash recovers, over the text hash of that
\* hash, to a trusted address, and no two entries of one hash recover to the
\* same address.
C2_StoredSignaturesTrustedDistinct ==
    \A h \in HashStrings :
        LET sigs == SigsIn(db, h)
        IN  /\ \A a \in DOMAIN sigs :
                  /\ ~hexDecodeString(h).err
                  /\ sigs[a].fmt = "ok"
                  /\ KeyTrusted(RecoveredKey(h, sigs[a]))
                  /\ a = Hex(RecoveredKey(h, sigs[a]))
            /\ \A a, b \in DOMAIN sigs :
                  RecoveredKey(h, sigs[a]) = RecoveredKey(h, sigs[b]) => a = b

\* The store holds a signature of every trusted signer for one hash.
C2_Witness ==
    Cardinality(DOMAIN SigsIn(db, "aa")) = Cardinality(TrustedKeys)

\* C3: every signer counted in a pending entry has a signature stored for
\* that hash.
C3_DurableBeforeCounted ==
    \A h \in DOMAIN pending : pending[h].signers \subseteq DOMAIN SigsIn(db, h)

\* A store write just failed for a pending hash that has a counted signer.
C3_Witness ==
    /\ lastEvent.kind = "store_error"
    /\ "aa" \in DOMAIN pending
    /\ pending["aa"].signers # {}

\* C4: while a hash stays in the pending table no step takes a signer out of
\* its signer set.
C4_QuorumMonotonic ==
    [][\A h \in DOMAIN pending :
          h \in DOMAIN pending' =>
              /\ pending[h].signers \subseteq pending'[h].signers
              /\ Cardinality(pending'[h].signers) >= Cardinality(pending[h].signers)]_vars

\* A repeated sign_request, a rebroadcast or a store failure met an entry
\* that has reached the quorum.
C4_Witness ==
    /\ lastEvent.kind \in {"other", "rebroadcast", "store_error"}
    /\ "aa" \in DOMAIN pending
    /\ Cardinality(pending["aa"].signers) >= Quorum

\* C5: no step removes an address from the signature map of a hash, so a map
\* that holds the quorum holds it in every later state.
C5_SignaturesNeverRemoved ==
    [][\A h \in HashStrings :
          /\ DOMAIN SigsIn(db, h) \subseteq DOMAIN SigsIn(db', h)
          /\ Cardinality(DOMAIN SigsIn(db, h)) >= Quorum
                => Cardinality(DOMAIN SigsIn(db', h)) >= Quorum]_vars

\* The expiry sweep removed a hash whose stored signatures reach the quorum.
C5_Witness ==
    /\ lastEvent.kind = "sweep"
    /\ "aa" \in lastEvent.hashes
    /\ Cardinality(DOMAIN SigsIn(db, "aa")) >= Quorum

\* C6: a stored response of a signer that is already counted for a pending
\* hash leaves the signer set as it is and replaces that signer's one entry
\* in the signature map by the signature of this response; a stored response
\* of a signer not yet counted adds exactly that signer.
C6_DuplicateResponseIdempotent ==
    [][\A m \in WellFormedResponses :
          LET h == m.body.hash
              a == Hex(RecoveredKey(h, m.body.signature))
          IN  (/\ h \in DOMAIN pending
               /\ TrustedSigner(m)
               /\ HandleMessage(m, "none"))
              => /\ SigsIn(db', h) = MapPut(SigsIn(db, h), a, m.body.signature)
                 /\ Cardinality({b \in DOMAIN SigsIn(db', h) : EqualFold(a, b)}) = 1
                 /\ a \in pending[h].signers
                       => /\ h \in DOMAIN pending'
                          /\ pending'[h].signers = pending[h].signers
                 /\ (a \notin pending[h].signers /\ h \in DOMAIN pending')
                       => /\ pending'[h].signers = pending[h].signers \cup {a}
                          /\ Cardinality(pending'[h].signers)
                                = Cardinality(pending[h].signers) + 1]_vars

\* A counted signer answered again with another signature, which is the
\* one now stored, and the signer is counted once.
C6_Witness ==
    /\ lastEvent.kind = "stored"
    /\ lastEvent.dup
    /\ "aa" \in DOMAIN pending
    /\ pending["aa"].signers = {Hex("A")}
    /\ SigsIn(db, "aa")[Hex("A")].variant = 2

C8_QuorumKeepsEntryUntilFullOrExpired ==
    [][\A h \in DOMAIN pending :
          (running' /\ h \notin DOMAIN pending')
              => \/ /\ lastEvent'.kind = "stored"
                    /\ DOMAIN SigsIn(db', h) = {Hex(k) : k \in TrustedKeys}
                    /\ Cardinality(pending[h].signers) = Cardinality(TrustedKeys) - 1
                 \/ /\ lastEvent'.kind = "sweep"
                    /\ h \in lastEvent'.hashes
                    /\ now - pending[h].timestamp > pendingExpiry
                    /\ db' = db]_vars

\* The sweep removed an entry that had two of three signers, and both
\* signatures are still stored.
C8_Witness ==
    /\ lastEvent.kind = "sweep"
    /\ "aa" \in lastEvent.hashes
    /\ Cardinality(DOMAIN SigsIn(db, "aa")) = 2

\* C10: a response of a trusted signer for a hash that is not pending writes
\* nothing to the store and leaves the pending table as it is.
C10_UnknownHashDropped ==
    [][\A m \in WellFormedResponses, f \in StoreSignatureFaults :
          (/\ m.body.hash \notin DOMAIN pending
           /\ TrustedSigner(m)
           /\ HandleMessage(m, f))
              => (db' = db /\ pending' = pending)]_vars

\* A trusted response was dropped for a hash that had been retired with all
\* signatures stored.
C10_Witness ==
    /\ lastEvent.kind = "unknown_hash"
    /\ "aa" \notin DOMAIN pending
    /\ Cardinality(DOMAIN SigsIn(db, "aa")) = 3

----------------------------------------------------------------------------
(* Properties of the retry / expiry loop, specification SpecTime *)

\* C9: a pending entry older than pendingExpiry is gone from the pending
\* table within one sweep interval: no entry is ever older than
\* pendingExpiry plus the sweep interval.
C9_ExpiredWithinSweepInterval ==
    \A h \in DOMAIN pending :
        now - pending[h].timestamp <= pendingExpiry + sweepInterval

----------------------------------------------------------------------------
(* Error handling and admission of the coordinator, specification Spec *)

\* C11: when StoreSignature fails while a trusted response for a pending
\* hash is handled, the step changes neither the pending table (the hash
\* stays, its signers are as before) nor the store, and the process keeps
\* running; every retry tick rebroadcasts every pending hash, this one
\* included, and leaves the table as it is.
C11_StorageErrorKeepsPending ==
    [][/\ \A m \in WellFormedResponses, f \in StoreSignatureFaults \ {"none"} :
             \/ (pending' = pending /\ db' = db /\ running')
             \/ ~(/\ m.body.hash \in DOMAIN pending
                  /\ TrustedSigner(m)
                  /\ HandleMessage(m, f))
       /\ RetryTick => (DOMAIN pending \subseteq lastEvent'.hashes /\ pending' = pending)]_vars

\* The store write of the first response for a pending hash just failed:
\* nobody is counted and nothing is stored for it.
C11_Witness ==
    /\ lastEvent.kind = "store_error"
    /\ "aa" \in DOMAIN pending
    /\ pending["aa"].signers = {}
    /\ DOMAIN SigsIn(db, "aa") = {}

\* The sign_request messages that parse.
RequestMessages ==
    {m \in InboundMessages : m.json = "ok" /\ m.body.type = MsgTypeSignRequest}

\* C12: handling a sign_request for a hash that is not pending creates its
\* entry with the time of handling, an empty signer set and the request as
\* data; handling a sign_request, full or bare, for a pending hash leaves
\* the whole table as it is; the store is not touched either way.
C12_AdmissionIdempotent ==
    [][\A m \in RequestMessages :
          LET h == m.body.hash
          IN  HandleMessage(m, "none")
              => /\ db' = db
                 /\ h \in DOMAIN pending => pending' = pending
                 /\ h \notin DOMAIN pending
                       => /\ DOMAIN pending' = DOMAIN pending \cup {h}
                          /\ pending'[h].signers = {}
                          /\ pending'[h].timestamp = now
                          /\ pending'[h].data = m.body
                          /\ \A g \in DOMAIN pending : pending'[g] = pending[g]]_vars

\* A request was just handled for a hash that was admitted earlier and has
\* counted signers: the entry keeps its timestamp and its signers.
C12_Witness ==
    /\ lastEvent.kind = "already_pending"
    /\ "aa" \in DOMAIN pending
    /\ pending["aa"].timestamp < now
    /\ pending["aa"].signers # {}

\* A payload the handlers cannot parse: text that is not JSON or does not
\* fit the typed struct, a response whose hash is not hexadecimal, or whose
\* signature is not hexadecimal or not 65 bytes long.
Malformed(m) ==
    \/ m.json # "ok"
    \/ /\ m.body.type = MsgTypeSignResponse
       /\ \/ hexDecodeString(m.body.hash).err
          \/ m.body.signature.fmt \in {"nothex", "badlen"}

\* C13: no inbound message stops the coordinator: after every handled
\* message the process is still running, and a malformed message leaves the
\* pending table and the store as they were.
C13_NoMessageCrashesNode ==
    [][\A m \in InboundMessages :
          HandleMessage(m, "none")
              => /\ running'
                 /\ Malformed(m) => (pending' = pending /\ db' = db)]_vars

----------------------------------------------------------------------------
(* Properties of the signer, specification SpecSigner *)

\* The sign_request payloads a signer can parse and whose hash is
\* hexadecimal.
SignableRequests == {m \in SignerInbound : reachesSign(m)}

\* C14: for a sign_request with a hexadecimal hash the signer, when signing
\* succeeds, hands exactly one sign_response to the topic: it carries the
\* hash string of the request, a signature that verifies over the text hash
\* of the hash bytes to the signer's key, and the signer's address as
\* peer_id; when signing fails it hands nothing to the topic.
C14_SignerResponse ==
    [][\A m \in SignableRequests, signFault \in BOOLEAN, pubFault \in BOOLEAN :
          NodeHandleMessage(m, signFault, pubFault)
              => IF signFault
                 THEN sgOutbox' = sgOutbox
                 ELSE /\ Len(sgOutbox') = Len(sgOutbox) + 1
                      /\ SubSeq(sgOutbox', 1, Len(sgOutbox)) = sgOutbox
                      /\ LET resp == sgOutbox'[Len(sgOutbox')].msg
                             digest == TextHash(hexDecodeString(m.body.hash).bytes)
                         IN  /\ resp.type = MsgTypeSignResponse
                             /\ resp.hash = m.body.hash
                             /\ resp.peer_id = Address(SignerKey)
                             /\ verifySignature(digest, resp.signature)
                                   = [err |-> FALSE, addr |-> SignerKey]]_vars

\* The signer answered two requests, one response each, and then dropped a
\* request because signing failed.
C14_Witness ==
    /\ Len(sgOutbox) = 2
    /\ sgOutbox[1].msg.hash = "aa"
    /\ sgOutbox[2].msg.hash = "bb"
    /\ sgOutbox[2].delivered
    /\ sgLastEvent.kind = "sign_error"

\* C15: handling a payload that is not a sign_request (a sign_response, any
\* other type, or text that is not JSON) hands nothing to the topic and
\* leaves the signer as it is.
C15_SignerIgnoresOthers ==
    [][\A m \in SignerInbound, signFault \in BOOLEAN, pubFault \in BOOLEAN :
          (/\ (m.json = "notjson" \/ m.body.type # MsgTypeSignRequest)
           /\ NodeHandleMessage(m, signFault, pubFault))
              => (sgOutbox' = sgOutbox /\ sgRunning' = sgRunning)]_vars

\* The signer has answered a request, then read a sign_response from the
\* topic and ignored it.
C15_Witness ==
    /\ sgLastEvent = SignerEvent("ignored", MsgTypeSignResponse)
    /\ Len(sgOutbox) = 1
    /\ sgRunning

----------------------------------------------------------------------------
(* Properties of the publish call, specification SpecWorker *)

\* Every key StoreData writes for the request is in the store, the record
\* under its hash included.
Stored(kv, sr) ==
    /\ dsKey(sr.data_structure_id) \in DOMAIN kv
    /\ dataKey(sr.hash) \in DOMAIN kv
    /\ kv[dataKey(sr.hash)].hash = sr.hash
    /\ timeIndexKey(sr.data_structure_id, sr.timestamp, sr.hash) \in DOMAIN kv
    /\ \A i \in 1..Len(sr.data_structure_meta) :
          fieldIndexKey(sr.data_structure_id, sr.data_structure_meta[i], sr.data[i], sr.hash)
              \in DOMAIN kv

\* C16: a step puts a sign_request on the topic only as the full request of
\* a call whose StoreData wrote the whole record before; a call whose
\* StoreData fails returns at once and puts nothing on the topic.
C16_PersistBeforeBroadcast ==
    [][/\ wkTopic' # wkTopic
          => /\ wkTopic' = Append(wkTopic, wkReq)
             /\ wkReq = FullSignRequest(wkReq.hash)
             /\ Stored(db, wkReq)
       /\ \A h \in WorkerHashes, perm \in Perms2, failAt \in StoreDataFaults :
             (/\ StoreData(db, FullSignRequest(h), perm, failAt).err
              /\ PublishSignRequestStore(h, perm, failAt))
                 => (wkTopic' = wkTopic /\ wkPc' = "idle")]_vars

\* The request for aa was published after its record was stored; the call
\* for bb has returned because the put of its time index failed, and
\* nothing was published for bb.
C16_Witness ==
    /\ wkTopic = <<FullSignRequest("aa")>>
    /\ wkPc = "idle"
    /\ wkReq.hash = "bb"
    /\ dataKey("bb") \in DOMAIN db
    /\ ~Stored(db, FullSignRequest("bb"))

----------------------------------------------------------------------------
(* Properties of the store queries, specification SpecStore *)

\* The records stored for a data structure: those under a data key whose
\* time index entry is in the range of the structure.
RecordsOf(kv, id) ==
    {kv[k] : k \in {x \in DOMAIN kv :
                       /\ x[1] = dataPrefix
                       /\ timeIndexKey(id, kv[x].timestamp, kv[x].hash) \in DOMAIN kv}}

\* The record names the field with the value.
HasField(r, field, value) ==
    \E i \in 1..Len(r.data_structure_meta) :
        r.data_structure_meta[i] = field /\ r.data[i] = value

\* The number of signatures stored for a hash.
SigCount(kv, h) == Cardinality(DOMAIN SigsIn(kv, h))

\* The result is the record r with its stored signatures, and r has the
\* greatest timestamp of the set C.
IsLatestOf(result, C, kv) ==
    /\ result.found
    /\ \E r \in C :
          /\ result.msg = WithSignatures(r, SigsIn(kv, r.hash))
          /\ \A r2 \in C : r2.timestamp <= r.timestamp

\* C17: the latest query without a field filter answers with the empty
\* message when no record of the data structure has at least T stored
\* signatures, and otherwise with a record of the data structure that has at
\* least T signatures and the greatest timestamp among those that have.
C17_ConfirmedOnlyLatest ==
    answer.op = "latest"
        => LET C == {r \in RecordsOf(db, answer.id) : SigCount(db, r.hash) >= Quorum}
           IN  IF C = {}
               THEN answer.result = [msg |-> MessageZero, found |-> FALSE]
               ELSE IsLatestOf(answer.result, C, db)

\* All three records are stored; the newest (bb) has one signature, cc and
\* the older aa have two: the query answers with cc.
C17_Witness ==
    /\ answer.op = "latest"
    /\ answer.result.found
    /\ answer.result.msg.hash = "cc"
    /\ SigCount(db, "bb") = 1
    /\ SigCount(db, "aa") = 2
    /\ Cardinality(RecordsOf(db, 0)) = 3

\* C18: GetLatestByField finds a record iff some record of the data
\* structure with the field value has at least threshold stored signatures,
\* and then returns, with its signatures, one of greatest timestamp among
\* those.
C18_LatestByField ==
    answer.op = "latest_by_field"
        => LET C == {r \in RecordsOf(db, answer.id) :
                        /\ HasField(r, answer.field, answer.value)
                        /\ SigCount(db, r.hash) >= answer.thr}
           IN  IF C = {}
               THEN ~answer.result.found
               ELSE IsLatestOf(answer.result, C, db)

\* All three records carry ticker SBER and have two signatures; the answer
\* is bb, which is neither the first nor the last key of the field range.
C18_Witness ==
    /\ answer.op = "latest_by_field"
    /\ answer.field = "ticker"
    /\ answer.thr = 2
    /\ answer.result.found
    /\ answer.result.msg.hash = "bb"
    /\ \A h \in StoreHashes : SigCount(db, h) = 2
    /\ Cardinality(RecordsOf(db, 0)) = 3

\* The key joins to a record: the segment that GetLatestMessage reads as the
\* hash names a stored record.
JoinsRecord(kv, key) ==
    /\ Len(stringsSplit(key)) >= 4
    /\ dataKey(stringsSplit(key)[4]) \in DOMAIN kv

\* C19: when some key of the index range of the data structure joins to a
\* stored record, GetLatestMessage returns without error the record of the
\* highest such key, and exists tells whether a signature map is stored for
\* its hash.
C19_LatestMessage ==
    answer.op = "latest_message"
        => LET keys == NewIterator(db, dsPrefix(answer.id))
               joined == {i \in 1..Len(keys) : JoinsRecord(db, keys[i])}
           IN  joined # {}
                  => LET top == CHOOSE i \in joined : \A j \in joined : j <= i
                         h == stringsSplit(keys[top])[4]
                     IN  /\ answer.result.err = "nil"
                         /\ answer.result.msg.hash = h
                         /\ answer.result.exists = (sigKey(h) \in DOMAIN db)

\* The number of records of the set that are newer than r.
Rank(r, R) == Cardinality({r2 \in R : r2.timestamp > r.timestamp})

\* C20: GetAllMessages returns the records of the data structure at the
\* positions (p-1)*limit .. p*limit-1 of the order by descending timestamp,
\* where p is the page, or 1 for a page below 1; each record of these
\* positions once, with its signatures, and nothing else.
C20_AllMessagesPage ==
    answer.op = "all"
        => LET R == RecordsOf(db, answer.id)
               p == IF answer.page < 1 THEN 1 ELSE answer.page
               lo == (p - 1) * answer.limit
               rest == Cardinality(R) - lo
               n == IF rest < 0 THEN 0 ELSE IF rest < answer.limit THEN rest ELSE answer.limit
           IN  /\ Len(answer.result) = n
               /\ \A j \in 1..n :
                     \E r \in R :
                        /\ Rank(r, R) = lo + j - 1
                        /\ answer.result[j] = WithSignatures(r, SigsIn(db, r.hash))

\* Three records are stored; page 2 with limit 1 answers with the second
\* newest, cc.
C20_Witness ==
    /\ answer.op = "all"
    /\ answer.page = 2
    /\ answer.limit = 1
    /\ Cardinality(RecordsOf(db, 0)) = 3
    /\ Len(answer.result) = 1
    /\ answer.result[1].hash = "cc"

\* The records of the data structure that carry the field value.
Matching(kv, id, field, value) == {r \in RecordsOf(kv, id) : HasField(r, field, value)}

\* The hashes of the messages of a page.
PageHashes(page) == {page[j].hash : j \in 1..Len(page)}

\* C21: a call of GetMessagesByField returns at most limit messages, all of
\* them records of the data structure with the field value, joined with
\* their signatures, none twice and in descending order of timestamp; it
\* returns as many as are left after page*limit matching records; and as
\* the page ranges over 0, 1, 2, ... with the same limit, every matching
\* record is returned on exactly one page.
C21_MessagesByFieldPages ==
    answer.op = "by_field"
        => LET M == Matching(db, answer.id, answer.field, answer.value)
               res == answer.result
               rest == Cardinality(M) - answer.page * answer.limit
               n == IF rest < 0 THEN 0 ELSE IF rest < answer.limit THEN rest ELSE answer.limit
               pages == [p \in QueryPages |->
                           PageHashes(GetMessagesByField(db, answer.id, answer.field,
                                                         answer.value, p, answer.limit))]
           IN  /\ Len(res) = n
               /\ \A j \in 1..Len(res) :
                     \E r \in M : res[j] = WithSignatures(r, SigsIn(db, r.hash))
               /\ \A j, k \in 1..Len(res) : j < k => res[j].timestamp > res[k].timestamp
               /\ PageHashes(res) = pages[answer.page]
               /\ \A r \in M : Cardinality({p \in QueryPages : r.hash \in pages[p]}) = 1

\* Three records carry ticker SBER; page 1 of limit 2 holds the one left,
\* and a page of two was returned newest first although the range is in the
\* order of the hashes (aa, bb, cc with bb the newest).
C21_Witness ==
    /\ answer.op = "by_field"
    /\ answer.field = "ticker"
    /\ answer.page = 0
    /\ answer.limit = 2
    /\ Cardinality(RecordsOf(db, 0)) = 3
    /\ Len(answer.result) = 2
    /\ answer.result[1].hash = "bb"
    /\ answer.result[2].hash = "aa"
    /\ SigCount(db, "bb") = 2

----------------------------------------------------------------------------
(* Properties of the stored signatures against the verifier contract *)

\* C22: for every signature stored for a hash under an address, the
\* contract's recoverSigner, given the bytes of the hash and the signature,
\* returns that address.
C22_StoredSignaturesRecoverOnChain ==
    \A h \in HashStrings :
        \A a \in DOMAIN SigsIn(db, h) :
            LET r == recoverSigner(hexDecodeString(h).bytes, SigsIn(db, h)[a])
            IN  ~r.reverted /\ Hex(r.signer) = a

----------------------------------------------------------------------------
(* Properties of the built request, specification SpecBuild *)

\* AssetTradingWithQuotes.calculateHash(data, timestamp):
\* keccak256(abi.encodePacked(data, timestamp)), a string and a uint256.
contractCalculateHash(data, timestamp) ==
    [keccak256 |-> << [utf8 |-> data], [word |-> timestamp] >>]

\* The data of a stored record as a reader gets it: json.Unmarshal of the
\* text json.Marshal wrote.
ReadBack(data) == jsonUnmarshalData(jsonMarshalData(data))

\* The records in the store.
StoredRecords == {db[k] : k \in {x \in DOMAIN db : x[1] = dataPrefix}}

\* C23: the hash of a built request is the hex form of keccak256 over the
\* JSON text of its data followed by the 32-byte word of its timestamp; the
\* three slices have one length and data[i] is the value of the field named
\* dataStructureMeta[i]; a stored record has the timestamp of its request,
\* and the hash recomputed from the data and timestamp read back from the
\* store is the stored hash.
C23_HashContract ==
    /\ wkReq.data # <<>>
          => /\ wkReq.hash = SprintfHex(contractCalculateHash(jsonMarshalData(wkReq.data),
                                                              wkReq.timestamp))
             /\ Len(wkReq.data) = Len(wkReq.data_structure)
             /\ Len(wkReq.data) = Len(wkReq.data_structure_meta)
             /\ \A i \in 1..Len(wkReq.data) :
                   LET name == wkReq.data_structure_meta[i]
                   IN  /\ name = "ticker" => wkReq.data[i] = GoString(BuilderTicker)
                       /\ name = "timestamp" => wkReq.data[i] = GoInt(wkReq.timestamp)
                       /\ name = "destination_chain" => wkReq.data[i] = GoInt(DestinationChain)
                       /\ name = "price" =>
                             \E p \in BuildPrices : wkReq.data[i] = GoString(FloatToWei(p))
             /\ dataKey(wkReq.hash) \in DOMAIN db
                   => db[dataKey(wkReq.hash)].timestamp = wkReq.timestamp
    /\ \A rec \in StoredRecords :
          rec.hash = SprintfHex(contractCalculateHash(jsonMarshalData(ReadBack(rec.data)),
                                                      rec.timestamp))

\* A request with the timestamp among its data was built and stored, and is
\* being published; the number read back from the store is a float64.
C23_Witness ==
    /\ wkPc = "publishing"
    /\ wkReq.data_structure_meta = <<"timestamp", "destination_chain">>
    /\ wkReq.timestamp = 1001
    /\ dataKey(wkReq.hash) \in DOMAIN db
    /\ ReadBack(db[dataKey(wkReq.hash)].data)[1] = GoFloat64(1001)
    /\ Cardinality(StoredRecords) = 2

----------------------------------------------------------------------------
(* Properties of concurrent StoreSignature calls, specification SpecLock *)

\* C24: when no StoreSignature call is running, the map stored for a hash
\* holds the signer of every call for that hash that returned nil.
C24_NoLostSignature ==
    (\A p \in Callers : calls[p].pc = "idle")
        => \A p \in Callers :
              \A c \in calls[p].stored : Hex(c[2]) \in DOMAIN SigsIn(db, c[1])

\* Both callers stored for the hash aa, and the second of them was waiting
\* for the lock while the first held it between its Get and its Put.
C24_Witness ==
    /\ calls[1].pc = "put"
    /\ calls[2].pc = "lock"
    /\ calls[1].hash = "aa" /\ calls[2].hash = "aa"
    /\ calls[1].made = 2
    /\ <<"aa", "B">> \in calls[2].stored
    /\ Hex("B") \in DOMAIN calls[1].sigs

----------------------------------------------------------------------------
(* Properties of the rebroadcast, specification SpecRetry *)

\* The hashes of the Publish calls of the last retry tick, in order.
RebroadcastHashes == [i \in 1..Len(retryLog.published) |-> retryLog.published[i].msg.hash]

\* C25: the Publish calls made for a retry tick, followed by those the loop
\* still has to make, are one call for each hash that was pending when the
\* tick was taken, whatever happened to pending since; every payload is the
\* bare request of its hash; and a tick finds the loop with nothing left of
\* the tick before.
C25_RebroadcastFollowsSnapshot ==
    LET all == RebroadcastHashes \o snapshot
    IN  /\ {all[i] : i \in 1..Len(all)} = retryLog.at
        /\ \A i, j \in 1..Len(all) : all[i] = all[j] => i = j
        /\ \A i \in 1..Len(retryLog.published) :
              retryLog.published[i].msg = BareSignRequest(RebroadcastHashes[i])
        /\ (loopPc = "select") = (snapshot = <<>>)

\* aa and bb were pending at the tick; aa got its third signature and was
\* retired while the loop was publishing, and was rebroadcast all the same,
\* before bb.
C25_Witness ==
    /\ loopPc = "select"
    /\ retryLog.at = {"aa", "bb"}
    /\ RebroadcastHashes = <<"aa", "bb">>
    /\ DOMAIN pending = {"bb"}
    /\ lastEvent.kind = "stored"
    /\ inflight = 0

----------------------------------------------------------------------------
(* Properties of a late signer, specification SpecLateFair *)

\* The hash is pending and the signer is subscribed.
LatePending == running /\ LateHash \in DOMAIN pending /\ SignerKey \in topicSubs

\* The signer's signature is in sig:<hash>, and the signer is counted in the
\* entry if the entry is there.
LateCounted ==
    /\ Address(SignerKey) \in DOMAIN SigsIn(db, LateHash)
    /\ LateHash \in DOMAIN pending => Address(SignerKey) \in pending[LateHash].signers

\* A retry tick found the hash pending and the signer subscribed: the
\* rebroadcast is in the signer's subscription and the hash is still pending.
LateReached ==
    /\ LatePending
    /\ Inbound("ok", BroadcastSignRequest(LateHash)) \in sgInbox

\* C26 as stated: once a retry tick has found the hash pending and the
\* signer subscribed, the signer's signature is eventually stored and counted.
C26_LateSignerAlwaysCounted == LateReached ~> LateCounted

\* C26: once the hash is pending with the signer subscribed, the signer's
\* signature is eventually stored and counted, or the hash leaves the
\* pending table before that (its entry expires).
C26_LateSignerCounted == LatePending ~> (LateCounted \/ LateHash \notin DOMAIN pending)

\* The signer subscribed after the request was admitted, a rebroadcast
\* reached it, and its signature is stored and counted in the entry.
C26_Witness ==
    /\ LatePending
    /\ pending[LateHash].signers = {Address(SignerKey)}
    /\ Address(SignerKey) \in DOMAIN SigsIn(db, LateHash)
    /\ lastEvent.kind = "stored"
    /\ Len(sgOutbox) = 1

----------------------------------------------------------------------------
(* Properties of the subscription, specifications SpecSub, SpecResub and *)
(* SpecResubFair *)

\* C27: while listen is inside o.sub.Next on the subscription that o.sub
\* holds and the process is not shutting down, no step of another task
\* cancels that subscription or puts another value into o.sub.
C27_ListenOwnsSubscription ==
    [][(lsPc = "next" /\ lsSub = sub /\ ~rootDone /\ ~rootDone')
          => /\ sub' = sub
             /\ sub \in subCancelled' => sub \in subCancelled]_vars

\* A tick at which no message arrived in the last five minutes and no peer
\* is known.
BadTick(hasRecentMessage, peerCount) == ~hasRecentMessage /\ peerCount = 0

\* C28: the health tick that makes the count of consecutive bad ticks 3
\* calls resubscribe; a tick that is not bad sets the count to zero; and a
\* resubscribe of the health monitor that succeeds sets it to zero.
C28_HealthEscalation ==
    [][/\ \A hasRecentMessage \in BOOLEAN, peerCount \in PeerCounts :
             HealthTick(hasRecentMessage, peerCount)
                 => IF BadTick(hasRecentMessage, peerCount)
                    THEN consecutiveTimeouts + 1 = 3 => hmPc' = "resubscribe"
                    ELSE consecutiveTimeouts' = 0 /\ hmPc' = "select"
       /\ ResubscribeSubscribe("health", TRUE) => consecutiveTimeouts' = 0]_vars

\* min(5 * (i + 1), 30)
ClaimedWait(i) == IF 5 * (i + 1) < 30 THEN 5 * (i + 1) ELSE 30

\* What holds at every point of a call of resubscribe by listen: at most 10
\* Subscribe calls, and a wait of min(5 * (i + 1), 30) seconds after the
\* failed attempt i.
ResubscribeBounded ==
    LET r == rs["listen"]
    IN  /\ r.tries <= 10
        /\ r.pc = "wait" => r.sleepTime = ClaimedWait(r.i) /\ r.tries = r.i + 1
        /\ r.result = "exhausted" => r.tries = 10

\* What every step of the call does: the entry cancels the subscription
\* o.sub holds; a Subscribe that succeeds ends the call at once with nil;
\* a wait during which the root context is cancelled ends the call with an
\* error and without another Subscribe.
ResubscribeSteps ==
    LET r == rs["listen"]
    IN  /\ (r.pc = "cancel" /\ rs' # rs /\ sub # NilSub) => sub \in subCancelled'
        /\ (r.pc = "subscribe" /\ sub' # NilSub /\ rs' # rs)
              => /\ rs'["listen"].pc = "idle"
                 /\ rs'["listen"].result = "ok"
                 /\ rs'["listen"].tries = r.tries + 1
                 /\ lsPc' = "select"
        /\ (r.pc = "wait" /\ ~r.fired /\ rootDone /\ rs'["listen"].pc # "wait")
              => /\ rs'["listen"].pc = "idle"
                 /\ rs'["listen"].result = "ctx"
                 /\ rs'["listen"].tries = r.tries
                 /\ lsPc' = "sleep"

\* C29: a call of resubscribe cancels the current subscription, makes at
\* most 10 Subscribe attempts, returns at the first success, waits
\* min(5 * (i + 1), 30) seconds after failed attempt i, returns an error when
\* the root context is cancelled during a wait, and terminates.
C29_BoundedResubscribe ==
    /\ []ResubscribeBounded
    /\ [][ResubscribeSteps]_vars
    /\ (rs["listen"].pc # "idle") ~> (rs["listen"].pc = "idle")

\* All ten attempts of a call failed and the call returned its error to
\* listen, which sleeps.
C29_Witness ==
    /\ rs["listen"].result = "exhausted"
    /\ rs["listen"].tries = 10
    /\ lsPc = "sleep"
    /\ ~rootDone

\* C30: the listen loop does not exit while the root context is alive, and
\* the process does not crash, whatever resubscribe returned.
C30_ListenSurvivesFailedResubscribe ==
    /\ lsPc # "crashed"
    /\ lsPc = "exited" => rootDone

----------------------------------------------------------------------------
(* Properties of cancellation, specification SpecCancelFair *)

\* Every goroutine of the coordinator has returned, or the process is gone.
CoordinatorStopped ==
    \/ ~processUp
    \/ /\ lsPc = "exited"
       /\ hmPc = "exited"
       /\ \A t \in CoordinatorBgTasks : bg[t] = "exited"

\* Every goroutine of the signer has returned, or the process is gone.
NodeStopped ==
    \/ ~nodeUp
    \/ \A t \in NodeBgTasks : bg[t] = "exited"

\* C31: after the root context of a process is cancelled, every goroutine
\* of that process eventually returns, whatever call it was in.
C31_CancellationReachesEveryTask ==
    /\ (observed = "coordinator" /\ rootDone) ~> CoordinatorStopped
    /\ (observed = "signer" /\ nodeDone) ~> NodeStopped

----------------------------------------------------------------------------
(* Properties of the peer supervisor, specification SpecPeers *)

\* The step is a tick of peerDiscovery.
DiscoveryTickStep == "discovery" \in peerDue /\ "discovery" \notin peerDue'

\* C32: at every tick of peerDiscovery at which no peer is connected, a
\* connection is attempted to every other peer of the peer store that has
\* an address, also when peers connected earlier and have disconnected.
C32_SupervisorReactsToZeroPeers ==
    [][(DiscoveryTickStep /\ connected = {}) => tried' = peerstore]_vars

----------------------------------------------------------------------------
(* Properties of the lock order, specification SpecOrder *)

\* The pairs <<a, b>> of distinct locks such that a goroutine holding a is
\* at a call that takes b.
LockOrder ==
    {<<a, b>> \in Mutexes \X Mutexes :
        /\ a # b
        /\ \E t \in LockTasks : /\ a \in LkHolds(t)
                                /\ LkOp(t) \in {<<"Lock", b>>, <<"RLock", b>>}}

\* C33: no goroutine holds pendingMux and knownPeersMux together, and the
\* only order in which two of the three locks are taken is pendingMux
\* before the store's mu, so the locks form no cycle.
C33_LockDiscipline ==
    /\ \A t \in LockTasks : ~({"pendingMux", "knownPeersMux"} \subseteq LkHolds(t))
    /\ LockOrder \subseteq {<<"pendingMux", "mu">>}
    /\ \A t \in LockTasks : "mu" \in LkHolds(t) => LkHolds(t) \subseteq {"mu", "pendingMux"}

\* The response handler holds pendingMux and the store's mu together.
C33_Witness ==
    lkHeld["listen"] = <<<<"w", "pendingMux">>, <<"w", "mu">>>>

----------------------------------------------------------------------------
(* Properties of the price aggregation, specification SpecCollect *)

\* The sources of a tick that returned a price.
Succeeded(outcomes) == {i \in DOMAIN outcomes : outcomes[i].kind = "ok"}

RECURSIVE SumPrices(_, _)
SumPrices(outcomes, is) ==
    IF is = {} THEN 0
    ELSE LET i == CHOOSE j \in is : TRUE
         IN  outcomes[i].price + SumPrices(outcomes, is \ {i})

\* C34: on every collection tick GetAveragePrice returns the mean of the
\* prices of the sources that succeeded, and an error only when none
\* succeeded; on an error the tick stores no record and publishes nothing.
C34_AggregationOutcome ==
    [][aggTick'.n # aggTick.n =>
        LET o == aggTick'.outcomes
            r == aggTick'.result
        IN  /\ (r.err # "nil") <=> (Succeeded(o) = {})
            /\ Succeeded(o) # {} =>
                  r.price * Cardinality(Succeeded(o)) = SumPrices(o, Succeeded(o))
            /\ r.err # "nil" => /\ db' = db
                                /\ wkPc' = "idle"
                                /\ wkTopic' = wkTopic]_vars

----------------------------------------------------------------------------
(* Properties of the store's lock, specification SpecStoreLockFair *)

\* C35: every store operation that a goroutine has started returns, also
\* a read that takes the read lock again while it holds it beside a writer
\* that waits; the response handler in StoreSignature is not blocked for
\* ever.
C35_StoreOperationsReturn ==
    \A t \in StoreTasks : (lkPc[t] # LkIdle) ~> (lkPc[t] = LkIdle)

----------------------------------------------------------------------------
(* Properties of retirement, specification SpecRetire *)

\* listen reads back a rebroadcast of aa while aa is not pending: the
\* snapshot it was published from held aa, which has been removed since.
LateRebroadcastStep == inflight' < inflight /\ "aa" \notin DOMAIN pending

\* C36: a rebroadcast of a hash that the coordinator published before it
\* removed the hash from pending, and reads back afterwards, does not put
\* the hash into pending again.
C36_RetirementIsFinal ==
    [][LateRebroadcastStep => "aa" \notin DOMAIN pending']_vars

----------------------------------------------------------------------------
(* Properties of two coordinators on one topic, specification              *)
(* SpecMirrorFair *)

\* The hash is pending at no coordinator.
MirrorRetired == \A c \in Coordinators : MirrorHash \notin DOMAIN mPending[c]

\* C37: with two coordinators on the topic and a trusted signer that never
\* answers, the hash is from some moment on absent from the pending table
\* of both coordinators for good: it is not rebroadcast for ever.
C37_RebroadcastingStops == <>[]MirrorRetired

----------------------------------------------------------------------------
(* Properties of the quorum arithmetic, specification SpecQuorum *)

\* The distinct addresses the trusted list names, as signers are recorded.
DistinctTrusted == {Hex(trustedAddrs[i].id) : i \in 1..Len(trustedAddrs)}

\* C38: for every accepted trusted list, also one that names an address
\* twice or in two letter cases, the threshold is that of the distinct
\* addresses, and a hash signed by every distinct trusted signer is not
\* pending any more.
C38_QuorumCountsDistinctSigners ==
    \A h \in DOMAIN pending :
        /\ threshold(trustedAddrs) = (Cardinality(DistinctTrusted) \div 2) + 1
        /\ pending[h].signers # DistinctTrusted


\* C39: between message handlers, the signers of every pending hash are
\* trusted addresses and fewer than the trusted set has members: no entry
\* whose signers are the whole trusted set stays in pending.
C39_SignersWithinBounds ==
    \A h \in DOMAIN pending :
        /\ pending[h].signers \subseteq DistinctTrusted
        /\ Cardinality(pending[h].signers) < Cardinality(DistinctTrusted)

----------------------------------------------------------------------------
(* Properties of the store's keys, specification SpecRetire *)

\* The hashes with a signature map, and those with a record, in the store.
SignedHashes == {k[2] : k \in {x \in DOMAIN db : x[1] = signaturePrefix}}
RecordedHashes == {k[2] : k \in {x \in DOMAIN db : x[1] = dataPrefix}}

\* C40: every hash with a stored signature map sig:<hash> has a stored
\* record data:<hash>, also when the request for the hash was published by
\* another coordinator.
C40_SignaturesBelongToRecords == SignedHashes \subseteq RecordedHashes

====
